---- MODULE Spec2Model ----
(***************************************************************************)
(* Model of pkg/remote/sshclient.go: the host-key verifier built by        *)
(* createHostKeyCallback (known-hosts store, unknown-host learning) and    *)
(* the recursive proxy-jump connect of ConnectToClient and the             *)
(* authentication of one hop built by createClientConfig.                  *)
(***************************************************************************)
EXTENDS Integers, Sequences, FiniteSets, TLC

VARIABLES
    fs,         \* known-hosts files on disk: path -> [exists, mode, lines]
    ver,        \* verifier instances (closures returned by createHostKeyCallback)
    cfg,        \* ssh config: host pattern -> [jump], its ProxyJump entries
    stack,      \* call stack of ConnectToClient, innermost frame last
    cstate,     \* "idle" | "running" | "ok" | "err"
    cret,       \* value returned by the top-level ConnectToClient
    clients,    \* transports established so far: id -> [host, via]
    netlog,     \* network operations in the order they were issued
    att,        \* one hop's attempt: createClientConfig, dial, handshake
    ctx,        \* connCtx of the attempt: "live" | "cancelled"
    rsv         \* the keywords of one hop: the lookups and the merge

vars == <<fs, ver, cfg, stack, cstate, cret, clients, netlog, att, ctx, rsv>>
trustVars == <<fs, ver>>
connVars == <<cfg, stack, cstate, cret, clients, netlog>>
authVars == <<att, ctx>>
resolveVars == <<rsv>>

\* no keyword has been looked up yet
NoResolve == [pc |-> "find"]

(***************************************************************************)
(* Bounds                                                                  *)
(***************************************************************************)
MaxCalls == 2          \* host-key callbacks made in one run
MaxJumps == 2          \* entries in one ProxyJump directive
StackCap == 14         \* frames the model can hold (never reached by the code)
MaxLookups == 2        \* calls of findSshConfigKeywords made by one attempt

(***************************************************************************)
(* Known-hosts files                                                       *)
(***************************************************************************)
Vers == {"v1"}
KhNames == {"~/kh", "/etc/kh", "~/../kh"}
\* values of UserKnownHostsFile and of GlobalKnownHostsFile in the ssh config
UserKhLists ==
    {<<>>, <<"~/kh">>, <<"~/../kh">>, <<"~/kh", "~/kh">>, <<"/etc/kh", "~/kh">>}
GlobalKhLists == {<<>>, <<"/etc/kh">>, <<"~/../kh">>}
Files == {"/home/kh", "/etc/kh"}
Keys == {"K1", "K2", "K3"}
KeyTypes == {"ssh-rsa", "ssh-ed25519"}
HostAddrs == {[name |-> "A", port |-> 22], [name |-> "A", port |-> 2222]}
Responses == {"yes", "no", "cancel"}

\* key.Type()
KeyType(k) == IF k = "K3" THEN "ssh-ed25519" ELSE "ssh-rsa"

\* wavebase.ExpandHomeDir: "~/" is replaced by the home directory, a path that
\* leaves the home directory is an error.
ExpandHomeDir(n) ==
    CASE n = "~/kh" -> [err |-> FALSE, path |-> "/home/kh"]
      [] n = "/etc/kh" -> [err |-> FALSE, path |-> "/etc/kh"]
      [] n = "~/plain" -> [err |-> FALSE, path |-> "/home/plain"]
      [] n = "~/enc" -> [err |-> FALSE, path |-> "/home/enc"]
      [] n = "~/enc2" -> [err |-> FALSE, path |-> "/home/enc2"]
      [] n = "~/garbage" -> [err |-> FALSE, path |-> "/home/garbage"]
      [] n = "~/odd" -> [err |-> FALSE, path |-> "/home/odd"]
      [] n = "~/missing" -> [err |-> FALSE, path |-> "/home/missing"]
      [] n = "" -> [err |-> FALSE, path |-> ""]
      [] n = "/run/agent" -> [err |-> FALSE, path |-> "/run/agent"]
      [] n = "~/agent" -> [err |-> FALSE, path |-> "/home/agent"]
      [] OTHER -> [err |-> TRUE, path |-> ""]

\* xknownhosts.Normalize: the default port is dropped, another port is kept
Normalize(a) == IF a.port = 22 THEN <<a.name>> ELSE <<a.name, a.port>>

\* xknownhosts.Line(hosts, key): an unmarked entry
Line(pat, k) == [marker |-> "", pat |-> pat, key |-> k]
RevokedLine(k) == [marker |-> "revoked", pat |-> <<"*">>, key |-> k]
BadLine == [marker |-> "bad", pat |-> <<>>, key |-> "K1"]

\* a host pattern of a line, parsed: the port defaults to 22
PatAddr(pat) ==
    IF Len(pat) = 1 THEN [name |-> pat[1], port |-> 22]
    ELSE [name |-> pat[1], port |-> pat[2]]

LineMatches(l, a) == l.marker = "" /\ PatAddr(l.pat) = a

\* hostKeyDB.checkAddr: the first matching line of each key type is the known key
KnownKey(lines, a, typ) ==
    LET idx == {i \in 1..Len(lines) :
                   LineMatches(lines[i], a) /\ KeyType(lines[i].key) = typ}
    IN IF idx = {} THEN "none"
       ELSE lines[CHOOSE i \in idx : \A j \in idx : i <= j].key

Want(lines, a) == {KnownKey(lines, a, t) : t \in KeyTypes} \ {"none"}

\* hostKeyDB.check: "match" (nil), "revoked" (RevokedError),
\* "unknown" (KeyError, Want empty), "changed" (KeyError, Want non-empty)
DbCheck(lines, a, k) ==
    IF \E i \in 1..Len(lines) : lines[i].marker = "revoked" /\ lines[i].key = k
    THEN "revoked"
    ELSE IF Want(lines, a) = {} THEN "unknown"
    ELSE IF KnownKey(lines, a, KeyType(k)) = k THEN "match"
    ELSE "changed"

\* knownhosts.NewDB / xknownhosts.New: files are opened and parsed in order, the
\* first failure is returned: *os.PathError for a file that cannot be opened,
\* a formatting error for a line that does not parse.
RECURSIVE NewDB(_, _)
NewDB(fsys, files) ==
    IF files = <<>> THEN [err |-> "nil", path |-> "", lines |-> <<>>]
    ELSE LET f == Head(files) IN
         IF ~fsys[f].exists THEN [err |-> "path", path |-> f, lines |-> <<>>]
         ELSE IF \E i \in 1..Len(fsys[f].lines) : fsys[f].lines[i].marker = "bad"
         THEN [err |-> "format", path |-> f, lines |-> <<>>]
         ELSE LET rest == NewDB(fsys, Tail(files)) IN
              IF rest.err # "nil" THEN rest
              ELSE [err |-> "nil", path |-> "",
                    lines |-> fsys[f].lines \o rest.lines]

(***************************************************************************)
(* createHostKeyCallback                                                   *)
(***************************************************************************)
\* root is given the user files as well
SelectKnownHostsFilesOfAnyUser(isRoot, ukh, gkh) == ukh \o gkh

\* lines 396-401: root uses the global files only, any other user the user
\* files followed by the global files
SelectKnownHostsFiles(isRoot, ukh, gkh) == IF isRoot THEN gkh ELSE ukh \o gkh

\* lines 403-410: names that do not expand are dropped
RECURSIVE ExpandKnownHostsFiles(_)
ExpandKnownHostsFiles(names) ==
    IF names = <<>> THEN <<>>
    ELSE LET e == ExpandHomeDir(Head(names)) IN
         IF e.err THEN ExpandKnownHostsFiles(Tail(names))
         ELSE <<e.path>> \o ExpandKnownHostsFiles(Tail(names))

\* the check of line 413 left out
NoKnownHostsFilesNever(files) == FALSE

\* line 413: there are no good known hosts files
NoKnownHostsFiles(files) == Len(files) = 0

\* lines 424-457: a file that cannot be opened is moved to unreadableFiles and
\* the store is built again; any other error fails the construction; with no
\* file left the basic callback answers KeyError{} to everything
RECURSIVE BuildStore(_, _, _)
BuildStore(fsys, files, unread) ==
    IF Len(files) = 0
    THEN [err |-> FALSE, files |-> files, unread |-> unread,
          hasDb |-> FALSE, db |-> <<>>]
    ELSE LET d == NewDB(fsys, files) IN
         IF d.err = "path"
         THEN LET okFiles == SelectSeq(files, LAMBDA f : f # d.path) IN
              IF Len(okFiles) >= Len(files)
              THEN [err |-> TRUE, files |-> files, unread |-> unread,
                    hasDb |-> FALSE, db |-> <<>>]
              ELSE BuildStore(fsys, okFiles, Append(unread, d.path))
         ELSE IF d.err = "format"
         THEN [err |-> TRUE, files |-> files, unread |-> unread,
               hasDb |-> FALSE, db |-> <<>>]
         ELSE [err |-> FALSE, files |-> files, unread |-> unread,
               hasDb |-> TRUE, db |-> d.lines]

\* lines 388-457 and 551
createHostKeyCallback(fsys, isRoot, ukh, gkh) ==
    LET knownHostsFiles ==
            ExpandKnownHostsFiles(SelectKnownHostsFiles(isRoot, ukh, gkh))
    IN IF NoKnownHostsFiles(knownHostsFiles)
       THEN [err |-> TRUE, files |-> <<>>, unread |-> <<>>,
             hasDb |-> FALSE, db |-> <<>>]
       ELSE BuildStore(fsys, knownHostsFiles, <<>>)

(***************************************************************************)
(* writeToKnownHosts, split at its prompt                                  *)
(***************************************************************************)
\* lines 288-296: MkdirAll and OpenFile(O_APPEND|O_WRONLY|O_CREATE)
openKnownHosts(fsys, f) ==
    IF fsys[f].mode = "ro" THEN [ok |-> FALSE, fs |-> fsys]
    ELSE [ok |-> TRUE, fs |-> [fsys EXCEPT ![f].exists = TRUE]]

\* lines 334-345 and 365-376: the answer of the human; a timeout or a
\* cancellation is an error of GetUserInput, "no" is turned into an error
getUserVerification(resp) == IF resp = "yes" THEN "confirm" ELSE "err"

\* the error of the prompt is returned as it is, not as UserInputCancelError
writeAfterVerificationPlain(fsys, f, newLine, resp) ==
    IF getUserVerification(resp) = "err" THEN [err |-> "plain", fs |-> fsys]
    ELSE IF fsys[f].mode = "full" THEN [err |-> "plain", fs |-> fsys]
    ELSE [err |-> "nil",
          fs |-> [fsys EXCEPT ![f].lines = Append(@, newLine)]]

\* the file is opened without O_APPEND and written from its start
writeAfterVerificationFromStart(fsys, f, newLine, resp) ==
    IF getUserVerification(resp) = "err" THEN [err |-> "cancel", fs |-> fsys]
    ELSE IF fsys[f].mode = "full" THEN [err |-> "plain", fs |-> fsys]
    ELSE [err |-> "nil",
          fs |-> [fsys EXCEPT ![f].lines = <<newLine>> \o Tail(@ \o <<newLine>>)]]

\* lines 300-315: "cancel" is UserInputCancelError, "plain" any other error
writeAfterVerification(fsys, f, newLine, resp) ==
    IF getUserVerification(resp) = "err" THEN [err |-> "cancel", fs |-> fsys]
    ELSE IF fsys[f].mode = "full" THEN [err |-> "plain", fs |-> fsys]
    ELSE [err |-> "nil",
          fs |-> [fsys EXCEPT ![f].lines = Append(@, newLine)]]

(***************************************************************************)
(* waveHostKeyCallback                                                     *)
(***************************************************************************)
\* line 460: the callback of the store built at construction
basicCallback(r, a, k) == IF r.hasDb THEN DbCheck(r.db, a, k) ELSE "unknown"

\* len(serr.Want) is not looked at: every KeyError is taken for an unknown host
DispatchChangedAsUnknown(c) ==
    CASE c = "match" -> "ok"
      [] c = "revoked" -> "revoked"
      [] OTHER -> "learn"

\* the RevokedError case is missing and the error falls through to the
\* unknown-host path
DispatchRevokedAsUnknown(c) ==
    CASE c = "match" -> "ok"
      [] c = "changed" -> "changed"
      [] OTHER -> "learn"

\* lines 461-472 and 508: what the callback does with the store's answer
Dispatch(c) ==
    CASE c = "match" -> "ok"
      [] c = "revoked" -> "revoked"
      [] c = "changed" -> "changed"
      [] OTHER -> "learn"

\* lines 477-483 / 492-496: the files of one loop are tried from entry i; the
\* loop suspends at the first file that opens, a file that does not open
\* leaves a plain error and the loop goes on
RECURSIVE NextPrompt(_, _, _)
NextPrompt(fsys, files, i) ==
    IF i > Len(files) THEN [at |-> 0, fs |-> fsys]
    ELSE LET o == openKnownHosts(fsys, files[i]) IN
         IF o.ok THEN [at |-> i, fs |-> o.fs]
         ELSE NextPrompt(o.fs, files, i + 1)

Finish(r, res) == [r EXCEPT !.pc = "idle", !.res = res]

LoopFiles(r, phase) == IF phase = "readable" THEN r.files ELSE r.unread

\* lines 476-507: run from entry i of a loop to the next prompt or to the end
\* of both loops, where err is never nil
RECURSIVE Resume(_, _, _, _)
Resume(r, fsys, phase, i) ==
    LET n == NextPrompt(fsys, LoopFiles(r, phase), i) IN
    IF n.at # 0
    THEN [rec |-> [r EXCEPT !.pc = "prompt", !.phase = phase, !.idx = n.at,
                            !.asked = Append(@, LoopFiles(r, phase)[n.at])],
          fs |-> n.fs]
    ELSE IF phase = "readable" THEN Resume(r, n.fs, "unreadable", 1)
    ELSE [rec |-> Finish(r, "unable"), fs |-> n.fs]

\* the final lookup is left out: a successful write is a success
FinalLookupSkipped(fsys, files, a, k) == "ok"

\* lines 543-548: the store is built again from knownHostsFiles and asked
FinalLookup(fsys, files, a, k) ==
    LET d == NewDB(fsys, files) IN
    IF d.err # "nil" THEN "newerr"
    ELSE LET c == DbCheck(d.lines, a, k) IN
         IF c = "match" THEN "ok"
         ELSE IF c = "revoked" THEN "revoked" ELSE "keyerr"

\* line 497 left out: the readable files stay the known-hosts files
FilesAfterWriteKept(r, f) == r.files

\* line 497: a write to an unreadable file makes it the only known-hosts file
FilesAfterWrite(r, f) == IF r.phase = "unreadable" THEN <<f>> ELSE r.files

\* lines 480-487 / 495-503 after the prompt, then 505-548
AfterResponse(r, fsys, resp) ==
    LET f == LoopFiles(r, r.phase)[r.idx]
        w == writeAfterVerification(fsys, f, Line(Normalize(r.host), r.key), resp)
        r1 == [r EXCEPT !.answers = Append(@, resp)]
    IN CASE w.err = "cancel" -> [rec |-> Finish(r1, "cancel"), fs |-> w.fs]
         [] w.err = "plain" -> Resume(r1, w.fs, r.phase, r.idx + 1)
         [] OTHER ->
              LET files2 == FilesAfterWrite(r, f) IN
              [rec |-> Finish([r1 EXCEPT !.files = files2,
                                         !.wrote = Append(@, f)],
                              FinalLookup(w.fs, files2, r.host, r.key)),
               fs |-> w.fs]

\* lines 459-549 up to the first prompt; fs0 keeps the files as the call
\* found them
waveHostKeyCallback(r, fsys, a, k) ==
    LET r0 == [r EXCEPT !.host = a, !.key = k, !.ncalls = @ + 1,
                        !.asked = <<>>, !.answers = <<>>, !.wrote = <<>>,
                        !.res = "none", !.fs0 = fsys]
        d == Dispatch(basicCallback(r, a, k))
    IN IF d = "learn" THEN Resume(r0, fsys, "readable", 1)
       ELSE [rec |-> Finish(r0, d), fs |-> fsys]

(***************************************************************************)
(* Trust store: state and actions                                          *)
(***************************************************************************)
\* the known-hosts files found on disk: absent, well-formed, with a revoked
\* key or a line that does not parse, read-only, or on a full disk
InitFiles ==
    [exists : {FALSE}, mode : {"rw", "ro"}, lines : {<<>>}]
    \cup [exists : {TRUE}, mode : {"rw"},
          lines : { <<>>,
                    <<Line(<<"A">>, "K1")>>,
                    <<Line(<<"A">>, "K1"), Line(<<"A">>, "K2")>>,
                    <<RevokedLine("K2")>>,
                    <<BadLine>> }]
    \cup [exists : {TRUE}, mode : {"ro"},
          lines : {<<>>, <<Line(<<"A">>, "K1")>>}]
    \cup [exists : {TRUE}, mode : {"full"}, lines : {<<>>}]

\* lines 392-410: the selected lists hold no path that expands
NoUsableKnownHostsFile(isRoot, ukh, gkh) ==
    LET sel == IF isRoot THEN gkh ELSE ukh \o gkh IN
    \A i \in 1..Len(sel) : ExpandHomeDir(sel[i]).err

NoVer ==
    [st |-> "none", files |-> <<>>, unread |-> <<>>, hasDb |-> FALSE,
     db |-> <<>>, pc |-> "idle", host |-> [name |-> "A", port |-> 22],
     key |-> "K1", phase |-> "readable", idx |-> 0, res |-> "none",
     asked |-> <<>>, answers |-> <<>>, wrote |-> <<>>, ncalls |-> 0,
     noPaths |-> FALSE, fs0 |-> <<>>]

TrustInit ==
    /\ fs \in [Files -> InitFiles]
    /\ ver = [v \in Vers |-> NoVer]
    /\ cfg = <<>>
    /\ stack = <<>>
    /\ cstate = "idle"
    /\ cret = <<>>
    /\ clients = <<>>
    /\ netlog = <<>>
    /\ att = <<>>
    /\ ctx = "live"
    /\ rsv = NoResolve

\* lines 388-457 and 551: the verifier a construction leaves, with the count of
\* the calls made so far in the run
NewVerifier(fsys, isRoot, ukh, gkh, ncalls) ==
    LET c == createHostKeyCallback(fsys, isRoot, ukh, gkh) IN
    [NoVer EXCEPT !.st = IF c.err THEN "failed" ELSE "ready",
                  !.files = c.files, !.unread = c.unread,
                  !.hasDb = c.hasDb, !.db = c.db,
                  !.ncalls = ncalls,
                  !.noPaths = NoUsableKnownHostsFile(isRoot, ukh, gkh)]

\* createClientConfig line 598: a verifier is built for a connection attempt,
\* the first one or one that follows an attempt whose handshake called its own;
\* noPaths records that the expansion of lines 403-410 left no path
CreateHostKeyCallback(v, isRoot, ukh, gkh) ==
    /\ ver[v].pc = "idle"
    /\ ver[v].st = "none" \/ ver[v].res # "none"
    /\ ver[v].ncalls < MaxCalls
    /\ ver' = [ver EXCEPT ![v] =
                 NewVerifier(fs, isRoot, ukh, gkh, ver[v].ncalls)]
    /\ UNCHANGED <<fs, connVars, authVars, resolveVars>>

\* the handshake presents a host key to the verifier
HostKeyCallback(v, a, k) ==
    /\ ver[v].st = "ready"
    /\ ver[v].pc = "idle"
    /\ ver[v].ncalls < MaxCalls
    /\ LET c == waveHostKeyCallback(ver[v], fs, a, k) IN
       /\ ver' = [ver EXCEPT ![v] = c.rec]
       /\ fs' = c.fs
    /\ UNCHANGED <<connVars, authVars, resolveVars>>

\* the human answers the pending prompt, or the prompt times out
UserResponse(v, resp) ==
    /\ ver[v].pc = "prompt"
    /\ LET c == AfterResponse(ver[v], fs, resp) IN
       /\ ver' = [ver EXCEPT ![v] = c.rec]
       /\ fs' = c.fs
    /\ UNCHANGED <<connVars, authVars, resolveVars>>

TrustNext ==
    \/ \E v \in Vers, isRoot \in BOOLEAN,
          ukh \in UserKhLists, gkh \in GlobalKhLists :
          CreateHostKeyCallback(v, isRoot, ukh, gkh)
    \/ \E v \in Vers, a \in HostAddrs, k \in Keys : HostKeyCallback(v, a, k)
    \/ \E v \in Vers, resp \in Responses : UserResponse(v, resp)

SpecTrust == TrustInit /\ [][TrustNext]_vars

(***************************************************************************)
(* Two verifiers at work on the same known-hosts files                     *)
(***************************************************************************)
\* the verifiers of two connection attempts that run at the same time
PairVers == {"v1", "v2"}

\* the known-hosts files the two attempts find: absent or with an entry
PairFiles ==
    [exists : {FALSE}, mode : {"rw"}, lines : {<<>>}]
    \cup [exists : {TRUE}, mode : {"rw"}, lines : {<<Line(<<"A">>, "K1")>>}]

PairKeys == {"K1", "K2"}

TrustPairInit ==
    /\ fs \in [Files -> PairFiles]
    /\ ver = [v \in PairVers |-> NoVer]
    /\ cfg = <<>>
    /\ stack = <<>>
    /\ cstate = "idle"
    /\ cret = <<>>
    /\ clients = <<>>
    /\ netlog = <<>>
    /\ att = <<>>
    /\ ctx = "live"
    /\ rsv = NoResolve

\* the steps of the two verifiers interleave freely: each prompt is a
\* goroutine of its own attempt
TrustPairNext ==
    \/ \E v \in PairVers :
          CreateHostKeyCallback(v, FALSE, <<"~/kh">>, <<"/etc/kh">>)
    \/ \E v \in PairVers, k \in PairKeys :
          HostKeyCallback(v, [name |-> "A", port |-> 2222], k)
    \/ \E v \in PairVers, resp \in Responses : UserResponse(v, resp)

SpecTrustPair == TrustPairInit /\ [][TrustPairNext]_vars

(***************************************************************************)
(* ConnectToClient                                                         *)
(***************************************************************************)
SshProxyJumpMaxDepth == 10

HostNames == {"t", "j"}
ProxyNames == {"j", "root@t:2222", "@"}
NoClient == 0
EnvOutcomes == {"ok", "fail"}

\* ParseOpts: "user@host:port" is split into its parts, user and port are
\* optional (port 0 is unspecified); anything else is an error
ParseOpts(name) ==
    CASE name = "j" ->
           [err |-> FALSE, opts |-> [host |-> "j", user |-> "", port |-> 0]]
      [] name = "t" ->
           [err |-> FALSE, opts |-> [host |-> "t", user |-> "", port |-> 0]]
      [] name = "k" ->
           [err |-> FALSE, opts |-> [host |-> "k", user |-> "", port |-> 0]]
      [] name = "root@t:2222" ->
           [err |-> FALSE, opts |-> [host |-> "t", user |-> "root", port |-> 2222]]
      [] OTHER ->
           [err |-> TRUE, opts |-> [host |-> "", user |-> "", port |-> 0]]

\* SSHOpts.String, lines 872-882, as the pieces it joins
String(opts) ==
    (IF opts.user # "" THEN <<opts.user, "@">> ELSE <<>>)
        \o <<opts.host>>
        \o (IF opts.port # 0 THEN <<":", opts.port>> ELSE <<>>)

\* fmt.Sprintf("%d", opts.SSHPort), line 651
PortString(p) ==
    CASE p = 0 -> "0" [] p = 22 -> "22" [] p = 2222 -> "2222" [] OTHER -> "?"

\* wshrpc.ConnKeywords{}: every field has its zero value
ZeroKeywords ==
    [SshUser |-> "", SshHostName |-> "", SshPort |-> "",
     SshIdentityFile |-> <<>>, SshBatchMode |-> FALSE,
     SshPubkeyAuthentication |-> FALSE, SshPasswordAuthentication |-> FALSE,
     SshKbdInteractiveAuthentication |-> FALSE,
     SshPreferredAuthentications |-> <<>>, SshAddKeysToAgent |-> FALSE,
     SshIdentityAgent |-> "", SshProxyJump |-> <<>>,
     SshUserKnownHostsFile |-> <<>>, SshGlobalKnownHostsFile |-> <<>>]

\* the value of PreferredAuthentications when the ssh config names none
DefaultPreferred ==
    <<"gssapi-with-mic", "hostbased", "publickey", "keyboard-interactive",
      "password">>

\* the directive as the ssh config writes it when it names no method
DefaultPreferredRaw ==
    "gssapi-with-mic,hostbased,publickey,keyboard-interactive,password"

\* the keys findSshConfigKeywords looks up, in the order of its lookups
ConfigKeys ==
    <<"User", "HostName", "Port", "IdentityFile", "BatchMode",
      "PubkeyAuthentication", "PasswordAuthentication",
      "KbdInteractiveAuthentication", "PreferredAuthentications",
      "AddKeysToAgent", "IdentityAgent", "ProxyJump", "UserKnownHostsFile",
      "GlobalKnownHostsFile">>

ConfigKeySet == {ConfigKeys[i] : i \in 1..Len(ConfigKeys)}

\* the values of these keys are written as their pieces: the value of
\* IdentityFile as the values GetAll returns, the value of ProxyJump as the
\* pieces between its commas, the values of the known-hosts keys as the
\* pieces between single blanks
PieceKeys ==
    {"IdentityFile", "ProxyJump", "UserKnownHostsFile", "GlobalKnownHostsFile"}

\* the empty string as the value of a key
EmptyRaw(key) ==
    CASE key = "IdentityFile" -> <<>>
      [] key \in PieceKeys -> <<"">>
      [] OTHER -> ""

\* GetStrict, GetAll: the value the store holds under the host pattern, or
\* the empty string and an error
GetStrict(settings, hostPattern, key) ==
    IF settings[hostPattern][key].err
    THEN [err |-> TRUE, val |-> EmptyRaw(key)]
    ELSE settings[hostPattern][key]

\* trimquotes.TryTrimQuotes: a value in double quotes loses them
TryTrimQuotes(raw) ==
    CASE raw = "\"bob\"" -> "bob"
      [] raw = "\"h.example\"" -> "h.example"
      [] raw = "\"2200\"" -> "2200"
      [] raw = "\"no\"" -> "no"
      [] raw = "\"password\"" -> "password"
      [] OTHER -> raw

\* strings.ToLower
ToLower(raw) ==
    CASE raw = "YES" -> "yes"
      [] raw = "Yes" -> "yes"
      [] raw = "NO" -> "no"
      [] raw = "No" -> "no"
      [] raw = "NONE" -> "none"
      [] raw = "None" -> "none"
      [] OTHER -> raw

\* strings.TrimSpace
TrimSpace(raw) ==
    CASE raw = " j" -> "j"
      [] raw = " j " -> "j"
      [] raw = " " -> ""
      [] raw = " none" -> "none"
      [] raw = "\n" -> ""
      [] raw = "/run/agent\n" -> "/run/agent"
      [] raw = "~/../kh\n" -> "~/../kh"
      [] OTHER -> raw

\* strings.Split(s, ","): the pieces between the commas, one empty piece for
\* the empty string
SplitCommas(raw) ==
    CASE raw = DefaultPreferredRaw -> DefaultPreferred
      [] raw = "password,publickey" -> <<"password", "publickey">>
      [] raw = "keyboard-interactive,password,publickey" ->
            <<"keyboard-interactive", "password", "publickey">>
      [] raw = "publickey,,password" -> <<"publickey", "", "password">>
      [] OTHER -> <<raw>>

\* strings.Fields on the pieces between single blanks: the empty pieces go
Fields(raw) == SelectSeq(raw, LAMBDA piece : piece # "")

\* lines 842-848: the names of the ProxyJump directive
ProxyJumpNames(proxyJumpSplit) ==
    SelectSeq([i \in 1..Len(proxyJumpSplit) |-> TrimSpace(proxyJumpSplit[i])],
              LAMBDA proxyJumpName :
                  ~(proxyJumpName = "" \/ ToLower(proxyJumpName) = "none"))

\* the lookups whose error ends findSshConfigKeywords, in their order
StrictLookups ==
    <<"User", "HostName", "Port", "BatchMode", "PubkeyAuthentication",
      "PasswordAuthentication", "KbdInteractiveAuthentication",
      "PreferredAuthentications", "AddKeysToAgent", "IdentityAgent",
      "ProxyJump">>

\* the results of the lookups of lines 761-861, one for each key
LookedUp(settings, hostPattern) ==
    [User |-> GetStrict(settings, hostPattern, "User"),
     HostName |-> GetStrict(settings, hostPattern, "HostName"),
     Port |-> GetStrict(settings, hostPattern, "Port"),
     IdentityFile |-> GetStrict(settings, hostPattern, "IdentityFile"),
     BatchMode |-> GetStrict(settings, hostPattern, "BatchMode"),
     PubkeyAuthentication |->
         GetStrict(settings, hostPattern, "PubkeyAuthentication"),
     PasswordAuthentication |->
         GetStrict(settings, hostPattern, "PasswordAuthentication"),
     KbdInteractiveAuthentication |->
         GetStrict(settings, hostPattern, "KbdInteractiveAuthentication"),
     PreferredAuthentications |->
         GetStrict(settings, hostPattern, "PreferredAuthentications"),
     AddKeysToAgent |-> GetStrict(settings, hostPattern, "AddKeysToAgent"),
     IdentityAgent |-> GetStrict(settings, hostPattern, "IdentityAgent"),
     ProxyJump |-> GetStrict(settings, hostPattern, "ProxyJump"),
     UserKnownHostsFile |->
         GetStrict(settings, hostPattern, "UserKnownHostsFile"),
     GlobalKnownHostsFile |->
         GetStrict(settings, hostPattern, "GlobalKnownHostsFile")]

\* the first of the keys whose lookup gave an error, "" when none did
RECURSIVE FirstLookupError(_, _)
FirstLookupError(looked, keys) ==
    IF keys = <<>> THEN ""
    ELSE IF looked[Head(keys)].err THEN Head(keys)
    ELSE FirstLookupError(looked, Tail(keys))

\* the shell knows no SSH_AUTH_SOCK
NoAuthSock == [err |-> TRUE, out |-> ""]

\* lines 822-840: the path of the identity agent, from the IdentityAgent
\* directive or else from SSH_AUTH_SOCK of the local shell
IdentityAgentPath(identityAgentRaw, authSock) ==
    IF identityAgentRaw = ""
    THEN IF authSock.err THEN [err |-> FALSE, path |-> ""]
         ELSE ExpandHomeDir(TryTrimQuotes(TrimSpace(authSock.out)))
    ELSE ExpandHomeDir(TryTrimQuotes(identityAgentRaw))

\* lines 753-864, on the results of the lookups
KeywordsFound(looked, authSock) ==
    LET raw(key) == looked[key].val
        failed == FirstLookupError(looked, StrictLookups)
        agent == IdentityAgentPath(raw("IdentityAgent"), authSock)
    IN IF failed # "" /\ failed # "ProxyJump"
       THEN [err |-> TRUE, key |-> failed, kw |-> ZeroKeywords]
       ELSE IF agent.err
       THEN [err |-> TRUE, key |-> "IdentityAgent", kw |-> ZeroKeywords]
       ELSE IF failed # ""
       THEN [err |-> TRUE, key |-> failed, kw |-> ZeroKeywords]
       ELSE [err |-> FALSE, key |-> "",
             kw |->
               [SshUser |-> TryTrimQuotes(raw("User")),
                SshHostName |-> TryTrimQuotes(raw("HostName")),
                SshPort |-> TryTrimQuotes(raw("Port")),
                SshIdentityFile |->
                    [i \in 1..Len(raw("IdentityFile")) |->
                        TryTrimQuotes(raw("IdentityFile")[i])],
                SshBatchMode |->
                    ToLower(TryTrimQuotes(raw("BatchMode"))) = "yes",
                SshPubkeyAuthentication |->
                    ToLower(TryTrimQuotes(raw("PubkeyAuthentication"))) # "no",
                SshPasswordAuthentication |->
                    ToLower(TryTrimQuotes(raw("PasswordAuthentication"))) # "no",
                SshKbdInteractiveAuthentication |->
                    ToLower(TryTrimQuotes(raw("KbdInteractiveAuthentication")))
                        # "no",
                SshPreferredAuthentications |->
                    SplitCommas(TryTrimQuotes(raw("PreferredAuthentications"))),
                SshAddKeysToAgent |->
                    ToLower(TryTrimQuotes(raw("AddKeysToAgent"))) = "yes",
                SshIdentityAgent |-> agent.path,
                SshProxyJump |-> ProxyJumpNames(raw("ProxyJump")),
                SshUserKnownHostsFile |-> Fields(raw("UserKnownHostsFile")),
                SshGlobalKnownHostsFile |->
                    Fields(raw("GlobalKnownHostsFile"))]]

\* lines 753-864: every key is looked up once
findSshConfigKeywords(settings, hostPattern, authSock) ==
    CHOOSE found \in {KeywordsFound(looked, authSock) :
                         looked \in {LookedUp(settings, hostPattern)}} : TRUE

\* what the ssh config under test holds for one host
ConfigValue(config, hostPattern, key) ==
    CASE key = "IdentityFile" -> IF hostPattern = "j" THEN <<"~/plain">> ELSE <<>>
      [] key = "ProxyJump" ->
            IF config[hostPattern].jump = <<>> THEN <<"">>
            ELSE config[hostPattern].jump
      [] key = "UserKnownHostsFile" -> <<"~/kh">>
      [] key = "GlobalKnownHostsFile" -> <<"">>
      [] key = "PreferredAuthentications" -> DefaultPreferredRaw
      [] key \in {"PubkeyAuthentication", "PasswordAuthentication",
                  "KbdInteractiveAuthentication"} -> "yes"
      [] key \in {"BatchMode", "AddKeysToAgent"} -> "no"
      [] OTHER -> ""

\* what the store of the ssh config under test holds for the hosts; every
\* lookup gives an error when the configuration cannot be loaded
ConfigStore(config, hosts, lookup) ==
    [hostPattern \in hosts |->
        [key \in ConfigKeySet |->
            [err |-> lookup = "fail",
             val |-> ConfigValue(config, hostPattern, key)]]]

\* lines 653-657: the keywords saved for the connection of that name
SavedKeywords(rawName) ==
    IF rawName = <<"root", "@", "t", ":", 2222>>
    THEN [ZeroKeywords EXCEPT !.SshIdentityFile = <<"~/enc">>]
    ELSE ZeroKeywords

\* user.Current of line 703
UserCurrent(outcome) ==
    IF outcome = "ok" THEN [err |-> FALSE, Username |-> "me"]
    ELSE [err |-> TRUE, Username |-> ""]

\* the user of the ssh config is preferred to the user of the caller
CombinedUserConfigFirst(userProvidedOpts, configKeywords, current) ==
    IF configKeywords.SshUser # "" THEN configKeywords.SshUser
    ELSE IF userProvidedOpts.SshUser # "" THEN userProvidedOpts.SshUser
    ELSE current.Username

\* lines 698-708
CombinedUser(userProvidedOpts, configKeywords, current) ==
    IF userProvidedOpts.SshUser # "" THEN userProvidedOpts.SshUser
    ELSE IF configKeywords.SshUser # "" THEN configKeywords.SshUser
    ELSE current.Username

\* the host of the caller is preferred to the HostName of the ssh config
CombinedHostNameCallerFirst(userProvidedOpts, configKeywords) ==
    IF userProvidedOpts.SshHostName # "" THEN userProvidedOpts.SshHostName
    ELSE configKeywords.SshHostName

\* lines 710-716
CombinedHostName(userProvidedOpts, configKeywords) ==
    IF configKeywords.SshHostName # "" THEN configKeywords.SshHostName
    ELSE userProvidedOpts.SshHostName

\* a port 22 of the caller is taken like any other port
CombinedPortTakes22(userProvidedOpts, configKeywords) ==
    IF userProvidedOpts.SshPort # "0"
    THEN userProvidedOpts.SshPort
    ELSE IF configKeywords.SshPort # "" /\ configKeywords.SshPort # "22"
    THEN configKeywords.SshPort
    ELSE "22"

\* lines 718-724
CombinedPort(userProvidedOpts, configKeywords) ==
    IF userProvidedOpts.SshPort # "0" /\ userProvidedOpts.SshPort # "22"
    THEN userProvidedOpts.SshPort
    ELSE IF configKeywords.SshPort # "" /\ configKeywords.SshPort # "22"
    THEN configKeywords.SshPort
    ELSE "22"

\* the identity files of the caller come first
CombinedIdentityFileCallerFirst(userProvidedOpts, configKeywords, savedKeywords) ==
    userProvidedOpts.SshIdentityFile
        \o savedKeywords.SshIdentityFile
        \o configKeywords.SshIdentityFile

\* lines 726-732
CombinedIdentityFile(userProvidedOpts, configKeywords, savedKeywords) ==
    savedKeywords.SshIdentityFile
        \o userProvidedOpts.SshIdentityFile
        \o configKeywords.SshIdentityFile

\* batch mode is taken from the caller
ConfigOnlyKeywordsButBatch(userProvidedOpts, configKeywords, savedKeywords) ==
    [configKeywords EXCEPT !.SshBatchMode = userProvidedOpts.SshBatchMode]

\* lines 734-745: the keywords that are taken from the ssh config alone
ConfigOnlyKeywords(userProvidedOpts, configKeywords, savedKeywords) ==
    [SshBatchMode |-> configKeywords.SshBatchMode,
     SshPubkeyAuthentication |-> configKeywords.SshPubkeyAuthentication,
     SshPasswordAuthentication |-> configKeywords.SshPasswordAuthentication,
     SshKbdInteractiveAuthentication |->
         configKeywords.SshKbdInteractiveAuthentication,
     SshPreferredAuthentications |-> configKeywords.SshPreferredAuthentications,
     SshAddKeysToAgent |-> configKeywords.SshAddKeysToAgent,
     SshIdentityAgent |-> configKeywords.SshIdentityAgent,
     SshProxyJump |-> configKeywords.SshProxyJump,
     SshUserKnownHostsFile |-> configKeywords.SshUserKnownHostsFile,
     SshGlobalKnownHostsFile |-> configKeywords.SshGlobalKnownHostsFile]

\* lines 695-748
combineSshKeywords(userProvidedOpts, configKeywords, savedKeywords, current) ==
    LET needCurrent ==
            userProvidedOpts.SshUser = "" /\ configKeywords.SshUser = ""
        only == ConfigOnlyKeywords(userProvidedOpts, configKeywords, savedKeywords)
    IN IF needCurrent /\ current.err
       THEN [err |-> TRUE, kw |-> ZeroKeywords]
       ELSE [err |-> FALSE,
             kw |-> [ZeroKeywords EXCEPT
                        !.SshUser =
                            CombinedUser(userProvidedOpts, configKeywords, current),
                        !.SshHostName =
                            CombinedHostName(userProvidedOpts, configKeywords),
                        !.SshPort = CombinedPort(userProvidedOpts, configKeywords),
                        !.SshIdentityFile =
                            CombinedIdentityFile(userProvidedOpts, configKeywords,
                                                 savedKeywords),
                        !.SshBatchMode = only.SshBatchMode,
                        !.SshPubkeyAuthentication = only.SshPubkeyAuthentication,
                        !.SshPasswordAuthentication =
                            only.SshPasswordAuthentication,
                        !.SshKbdInteractiveAuthentication =
                            only.SshKbdInteractiveAuthentication,
                        !.SshPreferredAuthentications =
                            only.SshPreferredAuthentications,
                        !.SshAddKeysToAgent = only.SshAddKeysToAgent,
                        !.SshIdentityAgent = only.SshIdentityAgent,
                        !.SshProxyJump = only.SshProxyJump,
                        !.SshUserKnownHostsFile = only.SshUserKnownHostsFile,
                        !.SshGlobalKnownHostsFile =
                            only.SshGlobalKnownHostsFile]]

\* lines 649-651: the options of the hop are written into the flags
FlagsOfHop(connFlags, opts) ==
    [connFlags EXCEPT !.SshUser = opts.user, !.SshHostName = opts.host,
                      !.SshPort = PortString(opts.port)]

\* the flags a caller may pass for its target
CallerFlags ==
    {ZeroKeywords,
     [ZeroKeywords EXCEPT !.SshUser = "bob", !.SshIdentityFile = <<"~/enc2">>]}

\* the recursive call is given the flags of its caller
ProxyFlagsOfCaller(fr) == fr.flags

\* line 676: a proxy is connected to with empty flags
ProxyFlags(fr) == ZeroKeywords

\* the guard compares with the wrong bound
DepthExceededOffByOne(jumpNum) == jumpNum > SshProxyJumpMaxDepth + 1

\* the guard is missing
DepthExceededNever(jumpNum) == FALSE

\* line 640: the recursion guard
DepthExceeded(jumpNum) == jumpNum > SshProxyJumpMaxDepth

\* the error is returned without its context
ConnectionErrorBare(kind, cur, opts, jumpNum) ==
    [kind |-> kind, cur |-> NoClient,
     opts |-> [host |-> "", user |-> "", port |-> 0], jumpNum |-> 0]

\* lines 635-639 and 641-690: the debug context attached to an error
ConnectionError(kind, cur, opts, jumpNum) ==
    [kind |-> kind, cur |-> cur, opts |-> opts, jumpNum |-> jumpNum]

\* lines 640-662 once the keywords of the hop are looked up (f) and merged (c)
Entered(f, c, connFlags, opts, cur, jumpNum) ==
    IF DepthExceeded(jumpNum)
    THEN [err |-> TRUE, e |-> ConnectionError("depth", cur, opts, jumpNum)]
    ELSE IF f.err
    THEN [err |-> TRUE, e |-> ConnectionError("config", cur, opts, jumpNum)]
    ELSE IF c.err
    THEN [err |-> TRUE, e |-> ConnectionError("merge", cur, opts, jumpNum)]
    ELSE [err |-> FALSE,
          frame |-> [opts |-> opts, flags |-> connFlags, kw |-> c.kw,
                     jumpNum |-> jumpNum, dbgJump |-> jumpNum, cur |-> cur,
                     parent |-> cur, jump |-> c.kw.SshProxyJump, idx |-> 1,
                     pc |-> IF c.kw.SshProxyJump = <<>> THEN "config"
                            ELSE "jump"]]

\* lines 634-662: the guard, the config lookup and the merge of one call;
\* an error is returned at once, otherwise the call goes on with its proxies
EnterCall(config, opts, cur, jumpNum, flags, lookup, merge) ==
    CHOOSE entered \in
        UNION {{Entered(f, c, connFlags, opts, cur, jumpNum) :
                   c \in {combineSshKeywords(connFlags, f.kw,
                                             SavedKeywords(String(opts)),
                                             UserCurrent(merge))}} :
               f \in UNION {{findSshConfigKeywords(settings, opts.host,
                                                   NoAuthSock)} :
                            settings \in {ConfigStore(config, {opts.host}, lookup)}},
               connFlags \in {FlagsOfHop(flags, opts)}} : TRUE

\* the hop is dialed through the transport the call was given, not through
\* the transport of its last proxy
DialClientOfCaller(fr) == fr.parent

\* lines 683-688: the transport the hop is dialed through
DialClient(fr) == fr.cur

\* every hop is dialed directly, whatever transport the call holds
DialKindDirect(via) == "tcp"

\* lines 615-626: a direct TCP dial without a transport, a channel-open
\* through the transport otherwise
DialKind(via) == IF via = NoClient THEN "tcp" ELSE "channel"

\* the call hands back the depth its loop counted up to
ReturnedJumpNumOfLoop(fr) == fr.jumpNum

\* line 692: a successful call returns debugInfo.JumpNum, which no statement
\* changes after line 638
ReturnedJumpNum(fr) == fr.dbgJump

Top == stack[Len(stack)]
Pop(st) == SubSeq(st, 1, Len(st) - 1)
SetTop(st, fr) == [st EXCEPT ![Len(st)] = fr]

\* the transports built so far are returned with the error
FailWithPartialChain(e, nest) ==
    /\ cstate' = "err"
    /\ cret' = [client |-> Len(clients), jumpNum |-> e.jumpNum, err |-> e,
                nest |-> nest]
    /\ stack' = <<>>

\* the whole chain fails: every caller returns the error as it is (line 680)
\* (nest: how deep the failing call is nested, 1 for the caller's own call)
Fail(e, nest) ==
    /\ cstate' = "err"
    /\ cret' = [client |-> NoClient, jumpNum |-> e.jumpNum, err |-> e,
                nest |-> nest]
    /\ stack' = <<>>

ConnInit ==
    /\ cfg \in [HostNames -> [jump : UNION {[1..k -> ProxyNames] : k \in 0..MaxJumps}]]
    /\ stack = <<>>
    /\ cstate = "idle"
    /\ cret = <<>>
    /\ clients = <<>>
    /\ netlog = <<>>
    /\ fs = [f \in Files |-> [exists |-> FALSE, mode |-> "rw", lines |-> <<>>]]
    /\ ver = [v \in Vers |-> NoVer]
    /\ att = <<>>
    /\ ctx = "live"
    /\ rsv = NoResolve

\* the caller connects to a target: ConnectToClient(ctx, opts, nil, 0, flags)
ConnectStart(target, flags, lookup, merge) ==
    /\ cstate = "idle"
    /\ \E c \in {EnterCall(cfg, [host |-> target, user |-> "", port |-> 0],
                             NoClient, 0, flags, lookup, merge)} :
       IF c.err
       THEN Fail(c.e, 1)
       ELSE /\ stack' = <<c.frame>>
            /\ cstate' = "running"
            /\ cret' = cret
    /\ UNCHANGED <<cfg, clients, netlog, trustVars, authVars, resolveVars>>

\* lines 664-682: the next ProxyJump entry is parsed and connected to, one
\* level deeper, through the transport of the entry before it and with empty
\* caller options
ProxyJumpStep(lookup, merge) ==
    /\ cstate = "running"
    /\ Top.pc = "jump"
    /\ Len(stack) < StackCap
    /\ \E fr \in {Top} :
       LET p == ParseOpts(fr.jump[fr.idx])
       IN IF p.err
          THEN Fail(ConnectionError("parse", fr.cur, fr.opts, fr.dbgJump), Len(stack))
          ELSE \E c \in {EnterCall(cfg, p.opts, fr.cur, fr.jumpNum + 1,
                                   ProxyFlags(fr), lookup, merge)} :
               IF c.err
               THEN Fail(c.e, Len(stack) + 1)
               ELSE /\ stack' = Append(SetTop(stack, [fr EXCEPT !.jumpNum = @ + 1]),
                                       c.frame)
                    /\ UNCHANGED <<cstate, cret>>
    /\ UNCHANGED <<cfg, clients, netlog, trustVars, authVars, resolveVars>>

\* lines 683-686: createClientConfig builds the auth methods and the verifier
ClientConfigStep(outcome) ==
    /\ cstate = "running"
    /\ Top.pc = "config"
    /\ IF outcome = "fail"
       THEN Fail(ConnectionError("clientconfig", Top.cur, Top.opts, Top.dbgJump), Len(stack))
       ELSE /\ stack' = SetTop(stack, [Top EXCEPT !.pc = "dial"])
            /\ UNCHANGED <<cstate, cret>>
    /\ UNCHANGED <<cfg, clients, netlog, trustVars, authVars, resolveVars>>

\* connectInternal lines 615-626: the network connection of the hop
DialStep(outcome) ==
    /\ cstate = "running"
    /\ Top.pc = "dial"
    /\ netlog' = Append(netlog,
                        [op |-> DialKind(DialClient(Top)), host |-> Top.kw.SshHostName,
                         via |-> DialClient(Top), level |-> Len(stack),
                         jumpNum |-> Top.dbgJump, jump |-> Top.jump,
                         ok |-> outcome = "ok"])
    /\ IF outcome = "fail"
       THEN Fail(ConnectionError("dial", Top.cur, Top.opts, Top.dbgJump), Len(stack))
       ELSE /\ stack' = SetTop(stack, [Top EXCEPT !.pc = "handshake"])
            /\ UNCHANGED <<cstate, cret>>
    /\ UNCHANGED <<cfg, clients, trustVars, authVars, resolveVars>>

\* connectInternal lines 627-631 and lines 689-692: the handshake; the call
\* returns its transport and the depth it was called with
HandshakeStep(outcome) ==
    /\ cstate = "running"
    /\ Top.pc = "handshake"
    /\ netlog' = Append(netlog,
                        [op |-> "handshake", host |-> Top.kw.SshHostName,
                         via |-> DialClient(Top), level |-> Len(stack),
                         jumpNum |-> Top.dbgJump, jump |-> Top.jump,
                         ok |-> outcome = "ok"])
    /\ IF outcome = "fail"
       THEN /\ Fail(ConnectionError("handshake", Top.cur, Top.opts, Top.dbgJump), Len(stack))
            /\ clients' = clients
       ELSE LET id == Len(clients) + 1 IN
            /\ clients' = Append(clients, [host |-> Top.kw.SshHostName,
                                           via |-> DialClient(Top)])
            /\ IF Len(stack) = 1
               THEN /\ stack' = <<>>
                    /\ cstate' = "ok"
                    /\ cret' = [client |-> id, jumpNum |-> ReturnedJumpNum(Top),
                                err |-> <<>>, nest |-> 1]
               ELSE LET caller == stack[Len(stack) - 1]
                        done == caller.idx + 1 > Len(caller.jump)
                    IN /\ stack' = SetTop(Pop(stack),
                                     [caller EXCEPT !.cur = id,
                                                    !.jumpNum = ReturnedJumpNum(Top),
                                                    !.idx = @ + 1,
                                                    !.pc = IF done THEN "config"
                                                           ELSE "jump"])
                       /\ UNCHANGED <<cstate, cret>>
    /\ UNCHANGED <<cfg, trustVars, authVars, resolveVars>>

ConnNext ==
    \/ \E target \in HostNames, flags \in CallerFlags,
          lookup \in EnvOutcomes, merge \in EnvOutcomes :
          ConnectStart(target, flags, lookup, merge)
    \/ \E lookup \in EnvOutcomes, merge \in EnvOutcomes : ProxyJumpStep(lookup, merge)
    \/ \E outcome \in EnvOutcomes : ClientConfigStep(outcome)
    \/ \E outcome \in EnvOutcomes : DialStep(outcome)
    \/ \E outcome \in EnvOutcomes : HandshakeStep(outcome)

SpecConnect == ConnInit /\ [][ConnNext]_vars

\* ---- chains of three hosts: proxies that have proxies of their own ----

\* ssh configs of the three hosts: nested, flat, cyclic and without proxies
ChainConfigs ==
    {[t |-> [jump |-> <<"j", "k">>], j |-> [jump |-> <<"k">>], k |-> [jump |-> <<>>]],
     [t |-> [jump |-> <<"k", "j">>], j |-> [jump |-> <<>>], k |-> [jump |-> <<>>]],
     [t |-> [jump |-> <<"j">>], j |-> [jump |-> <<"k", "j">>], k |-> [jump |-> <<>>]],
     [t |-> [jump |-> <<"j", "j">>], j |-> [jump |-> <<"k", "k">>], k |-> [jump |-> <<>>]],
     [t |-> [jump |-> <<>>], j |-> [jump |-> <<>>], k |-> [jump |-> <<>>]]}

ChainInit ==
    /\ cfg \in ChainConfigs
    /\ stack = <<>>
    /\ cstate = "idle"
    /\ cret = <<>>
    /\ clients = <<>>
    /\ netlog = <<>>
    /\ fs = [f \in Files |-> [exists |-> FALSE, mode |-> "rw", lines |-> <<>>]]
    /\ ver = [v \in Vers |-> NoVer]
    /\ att = <<>>
    /\ ctx = "live"
    /\ rsv = NoResolve

ChainNext ==
    \/ \E flags \in CallerFlags, lookup \in EnvOutcomes, merge \in EnvOutcomes :
          ConnectStart("t", flags, lookup, merge)
    \/ \E lookup \in EnvOutcomes, merge \in EnvOutcomes : ProxyJumpStep(lookup, merge)
    \/ \E outcome \in EnvOutcomes : ClientConfigStep(outcome)
    \/ \E outcome \in EnvOutcomes : DialStep(outcome)
    \/ \E outcome \in EnvOutcomes : HandshakeStep(outcome)

SpecChain == ChainInit /\ [][ChainNext]_vars

\* the calls of one attempt run on one call stack and are always scheduled
FairSpecConnect == SpecConnect /\ WF_vars(ConnNext)

(***************************************************************************)
(* The keywords of one hop: findSshConfigKeywords and combineSshKeywords    *)
(***************************************************************************)
HopPattern == "h"

\* the values of an ssh config that sets nothing for the host
BaseRaw(key) ==
    CASE key = "Port" -> "22"
      [] key = "PreferredAuthentications" -> DefaultPreferredRaw
      [] key \in {"PubkeyAuthentication", "PasswordAuthentication",
                  "KbdInteractiveAuthentication"} -> "yes"
      [] key \in {"BatchMode", "AddKeysToAgent"} -> "no"
      [] OTHER -> EmptyRaw(key)

BaseValues == [key \in ConfigKeySet |-> BaseRaw(key)]

\* a store whose lookups all succeed, with the values of over set
StoreWith(over) ==
    [key \in ConfigKeySet |-> [err |-> FALSE, val |-> (over @@ BaseValues)[key]]]

\* a store in which the lookup of one key gives an error
StoreFailing(k) ==
    [key \in ConfigKeySet |-> [err |-> key = k, val |-> BaseRaw(key)]]

\* GetAll returns no error: the lookup of IdentityFile cannot fail
ResolveStores ==
    {StoreFailing(k) : k \in ConfigKeySet \ {"IdentityFile"}}
    \cup
    {StoreWith("User" :> "alice" @@ "Port" :> "2200"),
     StoreWith("User" :> "\"bob\"" @@ "HostName" :> "\"h.example\""
                   @@ "Port" :> "\"2200\""),
     StoreWith("HostName" :> "h.example" @@ "Port" :> ""),
     StoreWith("BatchMode" :> "YES" @@ "AddKeysToAgent" :> "yes"
                   @@ "PreferredAuthentications" :> "password,publickey"),
     StoreWith("PubkeyAuthentication" :> "No"
                   @@ "PasswordAuthentication" :> "\"no\""
                   @@ "KbdInteractiveAuthentication" :> "NO"
                   @@ "PreferredAuthentications" :> "\"password\""),
     StoreWith("ProxyJump" :> <<" j", "", "NONE", "root@t:2222">>),
     StoreWith("ProxyJump" :> <<"none">>),
     StoreWith("IdentityFile" :> <<"~/plain", "~/enc">>
                   @@ "UserKnownHostsFile" :> <<"~/kh", "", "/etc/kh">>
                   @@ "GlobalKnownHostsFile" :> <<"/etc/kh">>
                   @@ "IdentityAgent" :> "~/agent"),
     StoreWith("UserKnownHostsFile" :> <<"~/../kh", "~/kh">>),
     StoreWith("IdentityAgent" :> "~/../kh")}

\* lines 825-827: what the local shell prints for `echo ${SSH_AUTH_SOCK}`, a
\* line that ends with its newline (an empty line when the variable is unset)
AuthSocks ==
    {NoAuthSock, [err |-> FALSE, out |-> "/run/agent\n"],
     [err |-> FALSE, out |-> "~/../kh\n"], [err |-> FALSE, out |-> "\n"]}

\* the options of the hop
ResolveOpts ==
    {[host |-> HopPattern, user |-> u, port |-> p] :
        u \in {"", "root"}, p \in {0, 22, 2222}}

\* the flags of the caller: none, or every keyword set
ResolveFlags ==
    {ZeroKeywords,
     [SshUser |-> "flaguser", SshHostName |-> "flaghost", SshPort |-> "2222",
      SshIdentityFile |-> <<"~/enc2", "~/plain">>, SshBatchMode |-> TRUE,
      SshPubkeyAuthentication |-> TRUE, SshPasswordAuthentication |-> TRUE,
      SshKbdInteractiveAuthentication |-> TRUE,
      SshPreferredAuthentications |-> <<"password">>,
      SshAddKeysToAgent |-> TRUE, SshIdentityAgent |-> "/run/flag",
      SshProxyJump |-> <<"flagjump">>, SshUserKnownHostsFile |-> <<"~/flagkh">>,
      SshGlobalKnownHostsFile |-> <<"/flagkh">>]}

\* the keywords saved for the connection: none, or every keyword set
ResolveSaved ==
    {ZeroKeywords,
     [SshUser |-> "saveduser", SshHostName |-> "savedhost", SshPort |-> "2022",
      SshIdentityFile |-> <<"~/enc", "~/plain">>, SshBatchMode |-> TRUE,
      SshPubkeyAuthentication |-> FALSE, SshPasswordAuthentication |-> FALSE,
      SshKbdInteractiveAuthentication |-> FALSE,
      SshPreferredAuthentications |-> <<"publickey">>,
      SshAddKeysToAgent |-> TRUE, SshIdentityAgent |-> "/run/saved",
      SshProxyJump |-> <<"savedjump">>, SshUserKnownHostsFile |-> <<"~/savedkh">>,
      SshGlobalKnownHostsFile |-> <<"/savedkh">>]}

ResolveInit ==
    /\ rsv = NoResolve
    /\ fs = [f \in Files |-> [exists |-> FALSE, mode |-> "rw", lines |-> <<>>]]
    /\ ver = [v \in Vers |-> NoVer]
    /\ cfg = <<>>
    /\ stack = <<>>
    /\ cstate = "idle"
    /\ cret = <<>>
    /\ clients = <<>>
    /\ netlog = <<>>
    /\ att = <<>>
    /\ ctx = "live"

\* line 644: the keywords of the ssh config are looked up
FindSshConfigKeywords(store, authSock) ==
    /\ rsv.pc = "find"
    /\ LET settings == [hostPattern \in {HopPattern} |-> store]
           f == findSshConfigKeywords(settings, HopPattern, authSock)
       IN rsv' = [pc |-> IF f.err THEN "failed" ELSE "found",
                  store |-> store, authSock |-> authSock, find |-> f]
    /\ UNCHANGED <<trustVars, connVars, authVars>>

\* lines 649-662: the options of the hop are written into the flags and the
\* three sources are merged
CombineSshKeywords(opts, flags, savedKeywords, merge) ==
    /\ rsv.pc = "found"
    /\ LET connFlags == FlagsOfHop(flags, opts)
           c == combineSshKeywords(connFlags, rsv.find.kw, savedKeywords,
                                   UserCurrent(merge))
       IN rsv' = [pc |-> IF c.err THEN "failed" ELSE "done",
                  store |-> rsv.store, authSock |-> rsv.authSock,
                  find |-> rsv.find, opts |-> opts, flags |-> flags,
                  userProvidedOpts |-> connFlags,
                  savedKeywords |-> savedKeywords,
                  current |-> UserCurrent(merge), res |-> c]
    /\ UNCHANGED <<trustVars, connVars, authVars>>

\* user.Current of line 392: it fails, or the local user is root or another
OsUsers ==
    {[err |-> TRUE, Username |-> ""], [err |-> FALSE, Username |-> "root"],
     [err |-> FALSE, Username |-> "me"]}

\* createHostKeyCallback lines 388-410, called at 598 with the keywords of
\* the merge: the known-hosts files are selected and their names expanded
KnownHostsFilesStep(osUser) ==
    /\ rsv.pc = "done"
    /\ LET unexpanded ==
               SelectKnownHostsFiles(osUser.Username = "root",
                                     rsv.res.kw.SshUserKnownHostsFile,
                                     rsv.res.kw.SshGlobalKnownHostsFile)
       IN rsv' = IF osUser.err
                 THEN [pc |-> "nocallback", osUser |-> osUser] @@ rsv
                 ELSE [pc |-> "selected", osUser |-> osUser,
                       unexpandedKnownHostsFiles |-> unexpanded,
                       knownHostsFiles |-> ExpandKnownHostsFiles(unexpanded)]
                          @@ rsv
    /\ UNCHANGED <<trustVars, connVars, authVars>>

ResolveNext ==
    \/ \E store \in ResolveStores, authSock \in AuthSocks :
          FindSshConfigKeywords(store, authSock)
    \/ \E opts \in ResolveOpts, flags \in ResolveFlags,
          savedKeywords \in ResolveSaved, merge \in EnvOutcomes :
          CombineSshKeywords(opts, flags, savedKeywords, merge)
    \/ \E osUser \in OsUsers : KnownHostsFilesStep(osUser)

SpecResolve == ResolveInit /\ [][ResolveNext]_vars

(***************************************************************************)
(* WaveSshConfigUserSettings: the config loader shared by all attempts     *)
(***************************************************************************)
\* connection attempts that run at the same time
LoaderAttempts == {"a1", "a2"}

\* line 39: waveSshConfigUserSettingsInternal before the first call; inits
\* counts the runs of the function given to configUserSettingsOnce, loads the
\* times the configs were read again
NoUserSettings ==
    [set |-> FALSE, IgnoreMatchDirective |-> FALSE, inits |-> 0, loads |-> 0]

\* lines 42-47: configUserSettingsOnce.Do runs its function the first time
\* only, and every caller returns after that run
WaveSshConfigUserSettings(settings) ==
    IF settings.set THEN settings
    ELSE [settings EXCEPT !.set = TRUE, !.IgnoreMatchDirective = TRUE,
                          !.inits = @ + 1]

\* ReloadConfigs of line 754: the shared settings read their files again
ReloadConfigs(settings) == [settings EXCEPT !.loads = @ + 1]

\* lines 759-860: the keys findSshConfigKeywords looks up, in its order; each
\* lookup gets the shared settings again
LookupKeys ==
    <<"User", "HostName", "Port", "IdentityFile", "BatchMode",
      "PubkeyAuthentication", "PasswordAuthentication",
      "KbdInteractiveAuthentication", "PreferredAuthentications",
      "AddKeysToAgent", "IdentityAgent", "ProxyJump", "UserKnownHostsFile",
      "GlobalKnownHostsFile">>

\* k: the lookups the call has done; first: the load its first lookup read;
\* mixed: a later lookup of the same call read another load
LoaderInit ==
    /\ rsv = [settings |-> NoUserSettings,
              at |-> [a \in LoaderAttempts |-> "idle"],
              k |-> [a \in LoaderAttempts |-> 0],
              first |-> [a \in LoaderAttempts |-> 0],
              mixed |-> [a \in LoaderAttempts |-> FALSE],
              calls |-> [a \in LoaderAttempts |-> 0]]
    /\ fs = [f \in Files |-> [exists |-> FALSE, mode |-> "rw", lines |-> <<>>]]
    /\ ver = [v \in Vers |-> NoVer]
    /\ cfg = <<>>
    /\ stack = <<>>
    /\ cstate = "idle"
    /\ cret = <<>>
    /\ clients = <<>>
    /\ netlog = <<>>
    /\ att = <<>>
    /\ ctx = "live"

\* line 754, its receiver: the attempt enters findSshConfigKeywords for one
\* of its hops and gets the shared settings
LoaderGet(a) ==
    /\ rsv.at[a] = "idle"
    /\ rsv.calls[a] < MaxLookups
    /\ rsv' = [rsv EXCEPT !.settings = WaveSshConfigUserSettings(@),
                          !.at[a] = "reload"]
    /\ UNCHANGED <<trustVars, connVars, authVars>>

\* line 754, the call
LoaderReload(a) ==
    /\ rsv.at[a] = "reload"
    /\ rsv' = [rsv EXCEPT !.settings = ReloadConfigs(@), !.at[a] = "lookup"]
    /\ UNCHANGED <<trustVars, connVars, authVars>>

\* the call returns, with its keywords or with the error of a lookup
LoaderReturned(r, a) ==
    [r EXCEPT !.at[a] = "idle", !.k[a] = 0, !.first[a] = 0,
              !.mixed[a] = FALSE, !.calls[a] = @ + 1]

\* one of the lookups of lines 759-860: it gets the settings again and reads
\* them as they are now; the error of a strict lookup ends the call, an
\* empty IdentityAgent sends it to the local shell (lines 825-828)
LoaderLookup(a, outcome, identityAgentRaw) ==
    /\ rsv.at[a] = "lookup"
    /\ LET key == LookupKeys[rsv.k[a] + 1]
           settings == WaveSshConfigUserSettings(rsv.settings)
           read == [rsv EXCEPT
                      !.settings = settings,
                      !.k[a] = @ + 1,
                      !.first[a] = IF rsv.k[a] = 0 THEN settings.loads ELSE @,
                      !.mixed[a] = @ \/ (rsv.k[a] > 0
                                           /\ settings.loads # rsv.first[a])]
       IN rsv' = IF /\ outcome = "fail"
                    /\ \E i \in 1..Len(StrictLookups) : StrictLookups[i] = key
                 THEN LoaderReturned(read, a)
                 ELSE IF key = "IdentityAgent" /\ identityAgentRaw = ""
                 THEN [read EXCEPT !.at[a] = "shell"]
                 ELSE IF rsv.k[a] + 1 = Len(LookupKeys)
                 THEN LoaderReturned(read, a)
                 ELSE read
    /\ UNCHANGED <<trustVars, connVars, authVars>>

\* lines 825-836: the call waits for the output of the local shell; a path
\* that does not expand ends the call
LoaderShell(a, outcome) ==
    /\ rsv.at[a] = "shell"
    /\ rsv' = IF outcome = "fail" THEN LoaderReturned(rsv, a)
              ELSE [rsv EXCEPT !.at[a] = "lookup"]
    /\ UNCHANGED <<trustVars, connVars, authVars>>

LoaderNext ==
    \/ \E a \in LoaderAttempts : LoaderGet(a)
    \/ \E a \in LoaderAttempts : LoaderReload(a)
    \/ \E a \in LoaderAttempts, outcome \in EnvOutcomes,
          identityAgentRaw \in {"", "~/agent"} :
          LoaderLookup(a, outcome, identityAgentRaw)
    \/ \E a \in LoaderAttempts, outcome \in EnvOutcomes : LoaderShell(a, outcome)

SpecLoader == LoaderInit /\ [][LoaderNext]_vars

(***************************************************************************)
(* createClientConfig: the authentication methods of one hop               *)
(***************************************************************************)
\* os.ReadFile of line 116 on the identity files found on disk: an
\* unencrypted key, two keys encrypted with a passphrase, a file that is no
\* key, a key of a kind no signer can be made of, and a file that is absent
ReadFile(path) ==
    CASE path = "/home/plain" -> [err |-> FALSE, kind |-> "plain"]
      [] path = "/home/enc" -> [err |-> FALSE, kind |-> "encrypted"]
      [] path = "/home/enc2" -> [err |-> FALSE, kind |-> "encrypted"]
      [] path = "/home/garbage" -> [err |-> FALSE, kind |-> "garbage"]
      [] path = "/home/odd" -> [err |-> FALSE, kind |-> "odd"]
      [] OTHER -> [err |-> TRUE, kind |-> ""]

\* ssh.ParseRawPrivateKey of line 151
ParseRawPrivateKey(privateKey) ==
    CASE privateKey \in {"plain", "odd"} -> "ok"
      [] privateKey = "encrypted" -> "PassphraseMissingError"
      [] OTHER -> "error"

\* ssh.ParseRawPrivateKeyWithPassphrase of line 188
ParseRawPrivateKeyWithPassphrase(privateKey, text) ==
    IF privateKey = "encrypted" /\ text = "right" THEN "ok" ELSE "error"

\* ssh.NewSignerFromKey of lines 153 and 193
NewSignerFromKey(privateKey) == IF privateKey = "odd" THEN "error" ELSE "ok"

\* userinput.GetUserInput: the answer of the human, or an error when the
\* human cancels, the deadline passes or the context is done
GetUserInput(done, resp) ==
    IF done \/ resp \in {"cancel", "timeout"}
    THEN [err |-> TRUE, text |-> ""]
    ELSE [err |-> FALSE, text |-> resp]

PromptKinds == {"passphrase", "password", "kbd", "hostkey"}

\* the wait of every prompt, in seconds
PromptSeconds == 60

\* the unknown-host prompt has no deadline
PromptWaitHostUnbounded(kind) == IF kind = "hostkey" THEN 0 ELSE PromptSeconds

\* lines 179, 209, 249, 335 and 366: context.WithTimeout(..., 60*time.Second)
PromptWait(kind) == PromptSeconds

\* lines 179, 209, 249 derive the context of the prompt from connCtx, lines
\* 335 and 366 from context.Background()
PromptParent(kind) == IF kind = "hostkey" THEN "background" ELSE "connCtx"

\* every identity file is queued, read or not
ReadableIdentityFilesUnchecked(names) == names

\* lines 111-123: the identity files that expand and can be read, in order
RECURSIVE ReadableIdentityFiles(_)
ReadableIdentityFiles(names) ==
    IF names = <<>> THEN <<>>
    ELSE LET e == ExpandHomeDir(Head(names)) IN
         IF e.err \/ ReadFile(e.path).err
         THEN ReadableIdentityFiles(Tail(names))
         ELSE <<Head(names)>> \o ReadableIdentityFiles(Tail(names))

\* line 121: existingKeys[identityFile]
ExistingKey(identityFile) == ReadFile(ExpandHomeDir(identityFile).path).kind

\* &ConnectionDebugInfo{}: no hop
NoDebugInfo ==
    [CurrentClient |-> NoClient, NextOpts |-> [host |-> "", user |-> "", port |-> 0],
     JumpNum |-> 0]

\* lines 105-129: the queues of the closure and the debug context it holds
createPublicKeyCallback(sshKeywords, authSockSignersExt, debugInfo) ==
    [identityFiles |-> ReadableIdentityFiles(sshKeywords.SshIdentityFile),
     authSockSigners |-> authSockSignersExt,
     debugInfo |-> debugInfo]

\* the error of the closure names no hop
CallbackErrorInfoNone(p) == NoDebugInfo

\* lines 140 and 186: ConnectionError{ConnectionDebugInfo: debugInfo, ...}
CallbackErrorInfo(p) == p.debugInfo

NoCred == [src |-> "none", id |-> "", dummy |-> FALSE]

\* lines 86-91: the signer of a key made for the occasion; f is the identity
\* file it stands in for
DummySigner(f) == [src |-> "file", id |-> f, dummy |-> TRUE]
FileSigner(f) == [src |-> "file", id |-> f, dummy |-> FALSE]
AgentSigner(a) == [src |-> "agent", id |-> a, dummy |-> FALSE]

\* what one invocation of a callback hands back to the ssh library
Returned(p, out, cred, file, add, err) ==
    [p |-> p, out |-> out, cred |-> cred, file |-> file, add |-> add,
     err |-> err]

\* createDummySigner, lines 81-92, as the closure returns it: the signer of a
\* fresh RSA key and no error, or no signer and the error of rsa.GenerateKey
\* (83-85) or of ssh.NewSignerFromKey (87-89), which is not a ConnectionError
createDummySigner(p, identityFile, made) ==
    IF made = "ok"
    THEN Returned(p, "signer", DummySigner(identityFile), identityFile, FALSE, <<>>)
    ELSE Returned(p, "error", NoCred, identityFile, FALSE, <<"createDummySigner">>)

\* lines 131-172: one invocation of the public-key callback up to its prompt
publicKeyCallback(p, sshKeywords, agentClient, made) ==
    IF Len(p.authSockSigners) # 0
    THEN Returned([p EXCEPT !.authSockSigners = Tail(@)], "signer",
                  AgentSigner(Head(p.authSockSigners)), "", FALSE, <<>>)
    ELSE IF Len(p.identityFiles) = 0
    THEN Returned(p, "error", NoCred, "", FALSE,
                  <<"ConnectionError", "no identity files remaining">>)
    ELSE LET identityFile == Head(p.identityFiles)
             p1 == [p EXCEPT !.identityFiles = Tail(@)]
             parsed == ParseRawPrivateKey(ExistingKey(identityFile))
         IN IF parsed = "ok" /\ NewSignerFromKey(ExistingKey(identityFile)) = "ok"
            THEN Returned(p1, "signer", FileSigner(identityFile), identityFile,
                          sshKeywords.SshAddKeysToAgent /\ agentClient, <<>>)
            ELSE IF parsed # "PassphraseMissingError"
            THEN createDummySigner(p1, identityFile, made)
            ELSE IF sshKeywords.SshBatchMode
            THEN createDummySigner(p1, identityFile, made)
            ELSE Returned(p1, "prompt", NoCred, identityFile, FALSE, <<>>)

\* a prompt that ends with an error skips the key like a wrong passphrase
afterPassphraseSkipsOnError(p, sshKeywords, agentClient, identityFile, response, made) ==
    IF ~response.err
          /\ ParseRawPrivateKeyWithPassphrase(ExistingKey(identityFile),
                                              response.text) = "ok"
    THEN Returned(p, "signer", FileSigner(identityFile), identityFile,
                  sshKeywords.SshAddKeysToAgent /\ agentClient, <<>>)
    ELSE createDummySigner(p, identityFile, made)

\* lines 181-203: the public-key callback after its passphrase prompt
afterPassphrase(p, sshKeywords, agentClient, identityFile, response, made) ==
    IF response.err
    THEN Returned(p, "error", NoCred, identityFile, FALSE,
                  <<"ConnectionError", "UserInputCancelError", "input">>)
    ELSE IF ParseRawPrivateKeyWithPassphrase(ExistingKey(identityFile),
                                             response.text) # "ok"
    THEN createDummySigner(p, identityFile, made)
    ELSE IF NewSignerFromKey(ExistingKey(identityFile)) # "ok"
    THEN createDummySigner(p, identityFile, made)
    ELSE Returned(p, "signer", FileSigner(identityFile), identityFile,
                  sshKeywords.SshAddKeysToAgent /\ agentClient, <<>>)

\* lines 221-225: the password callback after its prompt
afterPassword(response) ==
    IF response.err THEN [err |-> <<"ConnectionError", "input">>]
    ELSE [err |-> <<>>]

\* lines 236-240 and 262-266: the keyboard-interactive callback after the
\* prompt of one question
afterChallengeQuestion(response) ==
    IF response.err THEN [err |-> <<"ConnectionError", "input">>]
    ELSE [err |-> <<>>]

\* lines 231-233
ChallengeMismatch == <<"bad response from server">>

\* the answer is put in front of the answers given so far
PrependAnswer(answers, answer) == <<answer>> \o answers

\* line 240: answers = append(answers, answer)
AppendAnswer(answers, answer) == Append(answers, answer)

\* lines 234-236 and 255-261: the prompt of question i of the challenge
ChallengePrompt(questions, echos, i) ==
    [QueryText |-> questions[i], PublicText |-> echos[i]]

SupportedMethods == {"publickey", "keyboard-interactive", "password"}

\* lines 572-576: the tries RetryableAuthMethod is given
MaxTries(authMethodName, sshKeywords, authSockSigners) ==
    IF authMethodName = "publickey"
    THEN Len(sshKeywords.SshIdentityFile) + Len(authSockSigners)
    ELSE 1

\* batch mode is not looked at
authMethodActiveIgnoringBatch(sshKeywords, authMethodName) ==
    CASE authMethodName = "publickey" -> sshKeywords.SshPubkeyAuthentication
      [] authMethodName = "keyboard-interactive" ->
            sshKeywords.SshKbdInteractiveAuthentication
      [] authMethodName = "password" -> sshKeywords.SshPasswordAuthentication
      [] OTHER -> FALSE

\* lines 579-590: authMethodActiveMap, FALSE for a name it does not hold
authMethodActive(sshKeywords, authMethodName) ==
    CASE authMethodName = "publickey" -> sshKeywords.SshPubkeyAuthentication
      [] authMethodName = "keyboard-interactive" ->
            sshKeywords.SshKbdInteractiveAuthentication
                /\ ~sshKeywords.SshBatchMode
      [] authMethodName = "password" ->
            sshKeywords.SshPasswordAuthentication /\ ~sshKeywords.SshBatchMode
      [] OTHER -> FALSE

\* lines 585-596: the names of the methods of ClientConfig.Auth, in order
authMethods(sshKeywords) ==
    SelectSeq(sshKeywords.SshPreferredAuthentications,
              LAMBDA n : authMethodActive(sshKeywords, n)
                            /\ n \in SupportedMethods)

(***************************************************************************)
(* One hop's attempt: state and actions                                    *)
(***************************************************************************)
\* the hop the attempt connects to and the inputs of its configuration
AttemptOpts == [host |-> "A", user |-> "", port |-> 0]

AttemptFlags ==
    {ZeroKeywords,
     [ZeroKeywords EXCEPT !.SshIdentityFile = <<"~/enc2">>],
     [ZeroKeywords EXCEPT !.SshIdentityFile = <<"~/missing">>]}

AttemptSaved ==
    {ZeroKeywords,
     [ZeroKeywords EXCEPT !.SshIdentityFile = <<"~/plain">>],
     [ZeroKeywords EXCEPT !.SshIdentityFile = <<"~/enc">>],
     [ZeroKeywords EXCEPT !.SshIdentityFile = <<"~/odd">>]}

BaseConfig ==
    [ZeroKeywords EXCEPT !.SshPubkeyAuthentication = TRUE,
                         !.SshPasswordAuthentication = TRUE,
                         !.SshKbdInteractiveAuthentication = TRUE,
                         !.SshPreferredAuthentications = DefaultPreferred,
                         !.SshUserKnownHostsFile = <<"~/kh">>]

AttemptConfigs ==
    {BaseConfig,
     [BaseConfig EXCEPT !.SshIdentityFile = <<"~/plain">>,
                        !.SshAddKeysToAgent = TRUE],
     [BaseConfig EXCEPT !.SshIdentityFile = <<"~/garbage">>,
                        !.SshBatchMode = TRUE,
                        !.SshPreferredAuthentications =
                            <<"password", "publickey">>],
     [BaseConfig EXCEPT !.SshPubkeyAuthentication = FALSE,
                        !.SshPreferredAuthentications =
                            <<"keyboard-interactive", "password", "publickey">>],
     [BaseConfig EXCEPT !.SshPreferredAuthentications = <<"password">>]}

\* lines 559-565: the identity agent cannot be reached, or holds two signers
AgentStates ==
    {[client |-> FALSE, signers |-> <<>>],
     [client |-> TRUE, signers |-> <<"a1", "a2">>]}

\* lines 635-639: the hop is the target itself, or is reached through the
\* transport of a proxy and one jump deep
AttemptHops ==
    {[CurrentClient |-> NoClient, NextOpts |-> AttemptOpts, JumpNum |-> 0],
     [CurrentClient |-> 1, NextOpts |-> AttemptOpts, JumpNum |-> 1]}

HumanAnswers == {"right", "wrong", "cancel"}
\* the questions and the echo flags of a challenge of the server
ChallengeQuestions == {<<>>, <<"q1">>, <<"q1", "q2">>, <<"q2", "q1">>}
ChallengeEchos == {<<>>, <<TRUE>>, <<TRUE, FALSE>>}
HostKeysOffered == {"K1", "K2"}

AttemptFiles ==
    {[f \in Files |->
        IF f = "/home/kh"
        THEN [exists |-> TRUE, mode |-> "rw", lines |-> l]
        ELSE [exists |-> FALSE, mode |-> "ro", lines |-> <<>>]] :
     l \in {<<>>, <<Line(<<"A">>, "K1")>>}}

\* the port of a network address
PortNumber(port) ==
    CASE port = "22" -> 22 [] port = "2222" -> 2222 [] OTHER -> 0

\* line 603: networkAddr
AddrOf(sshKeywords) ==
    [name |-> sshKeywords.SshHostName, port |-> PortNumber(sshKeywords.SshPort)]

NoPrompt == [kind |-> "none", file |-> "", q |-> 0, nq |-> 0]

\* the challenge of the keyboard-interactive callback: its arguments, the
\* prompts it has issued, its answers variable and what it returned
NoChallenge ==
    [questions |-> <<>>, echos |-> <<>>, asked |-> <<>>, answers |-> <<>>,
     out |-> "none"]

NoAttempt ==
    [pc |-> "config", kw |-> ZeroKeywords, agentClient |-> FALSE,
     signers |-> <<>>, methods |-> <<>>, maxTries |-> <<>>, mi |-> 0,
     tries |-> 0,
     probe |-> [identityFiles |-> <<>>, authSockSigners |-> <<>>,
                debugInfo |-> NoDebugInfo],
     queued |-> <<>>, offered |-> <<>>, answers |-> <<>>, prompt |-> NoPrompt,
     cred |-> NoCred, agentKeys |-> <<>>, kbd |-> NoChallenge,
     debugInfo |-> NoDebugInfo,
     err |-> <<>>, errInfo |-> NoDebugInfo, res |-> "none"]

AttemptInit ==
    /\ fs \in AttemptFiles
    /\ ver = [v \in Vers |-> NoVer]
    /\ att = NoAttempt
    /\ ctx = "live"
    /\ rsv = NoResolve
    /\ cfg = <<>>
    /\ stack = <<>>
    /\ cstate = "idle"
    /\ cret = <<>>
    /\ clients = <<>>
    /\ netlog = <<>>

\* lines 627-630 and 690: an error of the handshake as ConnectToClient returns it
HandshakeError(inner) == <<"ConnectionError", "handshake">> \o inner

\* lines 301-308: what the verifier returned
HostKeyError(res) ==
    IF res = "cancel" THEN <<"UserInputCancelError", "input">> ELSE <<res>>

Ended(a, err) == [a EXCEPT !.pc = "done", !.res = "err", !.err = err,
                           !.prompt = NoPrompt]

\* lines 644-686 for a hop without ProxyJump: the keywords are merged and
\* createClientConfig builds the methods, their tries, the queues of the
\* public-key callback and the verifier
CreateClientConfig(v, flags, configKeywords, savedKeywords, agent, debugInfo) ==
    /\ att.pc = "config"
    /\ LET kw == combineSshKeywords(FlagsOfHop(flags, AttemptOpts), configKeywords,
                                    savedKeywords, UserCurrent("ok")).kw
           nv == NewVerifier(fs, FALSE, kw.SshUserKnownHostsFile,
                             kw.SshGlobalKnownHostsFile, 0)
           p == createPublicKeyCallback(kw, agent.signers, debugInfo)
           a == [NoAttempt EXCEPT !.kw = kw, !.agentClient = agent.client,
                                  !.debugInfo = debugInfo,
                                  !.signers = agent.signers,
                                  !.methods = authMethods(kw),
                                  !.maxTries =
                                      [i \in 1..Len(authMethods(kw)) |->
                                          MaxTries(authMethods(kw)[i], kw,
                                                   agent.signers)],
                                  !.probe = p, !.queued = p.identityFiles,
                                  !.pc = "dial"]
       IN /\ ver' = [ver EXCEPT ![v] = nv]
          /\ att' = IF nv.st = "failed"
                    THEN Ended(a, <<"ConnectionError", "createHostKeyCallback">>)
                    ELSE a
    /\ UNCHANGED <<fs, ctx, connVars, resolveVars>>

\* connectInternal lines 615-626: DialContext(ctx, ...) fails once ctx is done
AttemptDial(outcome) ==
    /\ att.pc = "dial"
    /\ outcome = "ok" => ctx = "live"
    /\ att' = IF outcome = "ok" THEN [att EXCEPT !.pc = "hostkey"]
              ELSE Ended(att, <<"ConnectionError", "dial">>)
    /\ UNCHANGED <<trustVars, ctx, connVars, resolveVars>>

\* line 627: the key exchange of the handshake calls the verifier
AttemptHostKey(v, k) ==
    /\ att.pc = "hostkey"
    /\ ver[v].res = "none"
    /\ HostKeyCallback(v, AddrOf(att.kw), k)

\* the human answers the unknown-host prompt
AttemptHostPrompt(v, resp) ==
    /\ att.pc = "hostkey"
    /\ UserResponse(v, resp)

\* the deadline of the unknown-host prompt passes
HostPromptTimeout(v) ==
    /\ att.pc = "hostkey"
    /\ PromptWait("hostkey") > 0
    /\ UserResponse(v, "timeout")

\* the verifier has returned: the handshake goes on to authenticate or fails
AttemptHostKeyDone(v) ==
    /\ att.pc = "hostkey"
    /\ ver[v].pc = "idle"
    /\ ver[v].res # "none"
    /\ att' = IF ver[v].res = "ok"
              THEN [att EXCEPT !.pc = "auth", !.mi = 1, !.tries = 0]
              ELSE Ended(att, HandshakeError(HostKeyError(ver[v].res)))
    /\ UNCHANGED <<trustVars, ctx, connVars, resolveVars>>

CurrentMethod == att.methods[att.mi]
CurrentMaxTries == att.maxTries[att.mi]

\* ssh.RetryableAuthMethod: a method is tried while maxTries <= 0 or fewer
\* than maxTries tries have failed
CanTry(name) ==
    /\ att.pc = "auth"
    /\ att.mi <= Len(att.methods)
    /\ CurrentMethod = name
    /\ CurrentMaxTries <= 0 \/ att.tries < CurrentMaxTries

\* the tries of the method are used up: the next method of ClientConfig.Auth
MethodExhausted ==
    /\ att.pc = "auth"
    /\ att.mi <= Len(att.methods)
    /\ CurrentMaxTries > 0
    /\ att.tries >= CurrentMaxTries
    /\ att' = [att EXCEPT !.mi = @ + 1, !.tries = 0]
    /\ UNCHANGED <<trustVars, ctx, connVars, resolveVars>>

\* no method is left: the handshake fails
AuthFailed ==
    /\ att.pc = "auth"
    /\ att.mi > Len(att.methods)
    /\ att' = Ended(att, HandshakeError(<<"unable to authenticate">>))
    /\ UNCHANGED <<trustVars, ctx, connVars, resolveVars>>

\* what the attempt does with the value a public-key callback returned
AfterPublicKey(r) ==
    CASE r.out = "signer" ->
            [att EXCEPT !.pc = "offer", !.probe = r.p, !.cred = r.cred,
                        !.offered = Append(@, r.cred), !.prompt = NoPrompt,
                        !.agentKeys = IF r.add THEN Append(@, r.file) ELSE @]
      [] r.out = "prompt" ->
            [att EXCEPT !.pc = "prompt", !.probe = r.p,
                        !.prompt = [kind |-> "passphrase", file |-> r.file,
                                    q |-> 0, nq |-> 0]]
      [] OTHER -> Ended([att EXCEPT !.probe = r.p,
                                    !.errInfo =
                                        IF r.err[1] = "ConnectionError"
                                        THEN CallbackErrorInfo(r.p)
                                        ELSE NoDebugInfo],
                        HandshakeError(r.err))

\* lines 131-179: the ssh library asks the public-key callback for a signer
PublicKeyCallback(made) ==
    /\ CanTry("publickey")
    /\ att' = AfterPublicKey(publicKeyCallback(att.probe, att.kw, att.agentClient,
                                               made))
    /\ UNCHANGED <<trustVars, ctx, connVars, resolveVars>>

\* lines 208-221: the ssh library asks the password callback for the secret
PasswordCallback ==
    /\ CanTry("password")
    /\ att' = [att EXCEPT !.pc = "prompt",
                          !.prompt = [kind |-> "password", file |-> "",
                                      q |-> 0, nq |-> 0]]
    /\ UNCHANGED <<trustVars, ctx, connVars, resolveVars>>

\* lines 230-236: the callback is called with the questions and the echo
\* flags of the server
KbdInteractiveChallenge(questions, echos) ==
    /\ CanTry("keyboard-interactive")
    /\ LET c == [NoChallenge EXCEPT !.questions = questions, !.echos = echos] IN
       att' = IF Len(questions) # Len(echos)
              THEN Ended([att EXCEPT !.kbd = [c EXCEPT !.out = "error"]],
                         HandshakeError(ChallengeMismatch))
              ELSE IF Len(questions) = 0
              THEN [att EXCEPT !.pc = "offer",
                               !.kbd = [c EXCEPT !.out = "answers"],
                               !.cred = [src |-> "kbd", id |-> "", dummy |-> FALSE]]
              ELSE [att EXCEPT !.pc = "prompt",
                               !.kbd = [c EXCEPT !.asked =
                                           <<ChallengePrompt(questions, echos, 1)>>,
                                        !.out = "running"],
                               !.prompt = [kind |-> "kbd", file |-> "",
                                           q |-> 1, nq |-> Len(questions)]]
    /\ UNCHANGED <<trustVars, ctx, connVars, resolveVars>>

\* the context of a prompt of the attempt is done
PromptCtxDone(kind) == PromptParent(kind) = "connCtx" /\ ctx = "cancelled"

\* GetUserInput returns and the callback that called it runs to its end
Answer(resp, made) ==
    /\ att.pc = "prompt"
    /\ LET kind == att.prompt.kind
           done == PromptCtxDone(kind)
           response == GetUserInput(done, resp)
           a == [att EXCEPT !.answers =
                               Append(@, [kind |-> kind,
                                          resp |-> IF done THEN "ctx" ELSE resp])]
       IN att' =
            CASE kind = "passphrase" ->
                    LET r == afterPassphrase(att.probe, att.kw, att.agentClient,
                                             att.prompt.file, response, made)
                        a2 == AfterPublicKey(r)
                    IN [a2 EXCEPT !.answers = a.answers]
              [] kind = "password" ->
                    LET r == afterPassword(response) IN
                    IF r.err # <<>>
                    THEN Ended([a EXCEPT !.errInfo = att.debugInfo],
                               HandshakeError(r.err))
                    ELSE [a EXCEPT !.pc = "offer", !.prompt = NoPrompt,
                                   !.cred = [src |-> "password", id |-> resp,
                                             dummy |-> FALSE]]
              [] OTHER ->
                    LET r == afterChallengeQuestion(response) IN
                    IF r.err # <<>>
                    THEN Ended([a EXCEPT !.errInfo = att.debugInfo,
                                         !.kbd.out = "error"],
                               HandshakeError(r.err))
                    ELSE IF att.prompt.q < att.prompt.nq
                    THEN [a EXCEPT !.prompt.q = @ + 1,
                                   !.kbd.answers = AppendAnswer(@, response.text),
                                   !.kbd.asked =
                                       Append(@, ChallengePrompt(att.kbd.questions,
                                                                 att.kbd.echos,
                                                                 att.prompt.q + 1))]
                    ELSE [a EXCEPT !.pc = "offer", !.prompt = NoPrompt,
                                   !.kbd.answers = AppendAnswer(@, response.text),
                                   !.kbd.out = "answers",
                                   !.cred = [src |-> "kbd", id |-> "",
                                             dummy |-> FALSE]]
    /\ UNCHANGED <<trustVars, ctx, connVars, resolveVars>>

\* the human answers the prompt of an authentication method
PromptResponse(resp, made) == Answer(resp, made)

\* the deadline of the prompt passes: the prompt returns an error, and no
\* placeholder is made on that path (184-187)
PromptTimeout ==
    /\ att.pc = "prompt"
    /\ PromptWait(att.prompt.kind) > 0
    /\ Answer("timeout", "ok")

\* the server accepts what the method offered, or not; a placeholder signer
\* is never accepted
ServerVerdict(accept) ==
    /\ att.pc = "offer"
    /\ accept => ~att.cred.dummy
    /\ att' = IF accept
              THEN [att EXCEPT !.pc = "done", !.res = "ok"]
              ELSE [att EXCEPT !.pc = "auth", !.tries = @ + 1]
    /\ UNCHANGED <<trustVars, ctx, connVars, resolveVars>>

\* the caller cancels connCtx while the attempt runs
CancelContext ==
    /\ ctx = "live"
    /\ att.pc \notin {"config", "done"}
    /\ ctx' = "cancelled"
    /\ UNCHANGED <<trustVars, att, connVars, resolveVars>>

\* the steps no human takes
SilentNext ==
    \/ \E v \in Vers, flags \in AttemptFlags, configKeywords \in AttemptConfigs,
          savedKeywords \in AttemptSaved, agent \in AgentStates,
          debugInfo \in AttemptHops :
          CreateClientConfig(v, flags, configKeywords, savedKeywords, agent,
                             debugInfo)
    \/ \E outcome \in EnvOutcomes : AttemptDial(outcome)
    \/ \E v \in Vers, k \in HostKeysOffered : AttemptHostKey(v, k)
    \/ \E v \in Vers : HostPromptTimeout(v)
    \/ \E v \in Vers : AttemptHostKeyDone(v)
    \/ MethodExhausted
    \/ AuthFailed
    \/ \E made \in EnvOutcomes : PublicKeyCallback(made)
    \/ PasswordCallback
    \/ \E questions \in ChallengeQuestions, echos \in ChallengeEchos :
          KbdInteractiveChallenge(questions, echos)
    \/ PromptTimeout
    \/ \E accept \in BOOLEAN : ServerVerdict(accept)
    \/ CancelContext

AttemptNext ==
    \/ SilentNext
    \/ \E v \in Vers, resp \in Responses : AttemptHostPrompt(v, resp)
    \/ \E resp \in HumanAnswers, made \in EnvOutcomes : PromptResponse(resp, made)

SpecAttempt == AttemptInit /\ [][AttemptNext]_vars

\* ---- two calls of createClientConfig: two hops of one attempt or two ----
\* ---- attempts at once, each with the queues of its own closure       ----

QueueCalls == {"c1", "c2"}
QueueScopes == QueueCalls \cup {"package"}

QueueKeywords ==
    {[BaseConfig EXCEPT !.SshIdentityFile = <<"~/plain", "~/enc">>],
     [BaseConfig EXCEPT !.SshIdentityFile = <<"~/missing", "~/garbage">>,
                        !.SshBatchMode = TRUE]}

NoQueues ==
    [identityFiles |-> <<>>, authSockSigners |-> <<>>, debugInfo |-> NoDebugInfo]

\* the queues are variables of the package, one pair for every call
QueueScopePackage(call) == "package"

\* lines 106 and 125-127: identityFiles and authSockSigners are variables of
\* the call of createPublicKeyCallback, captured by the closure it returns
QueueScope(call) == call

QueuesInit ==
    /\ att = [heap |-> [s \in QueueScopes |-> NoQueues],
              built |-> {},
              ptr |-> [c \in QueueCalls |-> c],
              kw |-> [c \in QueueCalls |-> ZeroKeywords],
              agentClient |-> [c \in QueueCalls |-> FALSE],
              signers |-> [c \in QueueCalls |-> <<>>],
              taken |-> [c \in QueueCalls |-> 0]]
    /\ fs \in AttemptFiles
    /\ ver = [v \in Vers |-> NoVer]
    /\ ctx = "live"
    /\ rsv = NoResolve
    /\ cfg = <<>>
    /\ stack = <<>>
    /\ cstate = "idle"
    /\ cret = <<>>
    /\ clients = <<>>
    /\ netlog = <<>>

\* createClientConfig lines 557-567: the signers of the identity agent are
\* fetched and the public-key callback is built from them and the keywords
QueuesCreate(call, sshKeywords, agent, debugInfo) ==
    /\ call \notin att.built
    /\ att' = [att EXCEPT
                  !.heap[QueueScope(call)] =
                      createPublicKeyCallback(sshKeywords, agent.signers, debugInfo),
                  !.built = @ \cup {call},
                  !.ptr[call] = QueueScope(call),
                  !.kw[call] = sshKeywords,
                  !.agentClient[call] = agent.client,
                  !.signers[call] = agent.signers]
    /\ UNCHANGED <<trustVars, ctx, connVars, resolveVars>>

\* lines 131-172: the ssh library of one call asks its callback for a signer;
\* the closure reaches its queues through identityFilesPtr and
\* authSockSignersPtr
QueuesProbe(call) ==
    /\ call \in att.built
    /\ \E made \in EnvOutcomes :
       \E r \in {publicKeyCallback(att.heap[att.ptr[call]], att.kw[call],
                                    att.agentClient[call], made)} :
          /\ r.p # att.heap[att.ptr[call]]
          /\ att' = [att EXCEPT !.heap[att.ptr[call]] = r.p,
                                !.taken[call] = @ + 1]
    /\ UNCHANGED <<trustVars, ctx, connVars, resolveVars>>

QueuesNext ==
    \/ \E call \in QueueCalls, sshKeywords \in QueueKeywords,
          agent \in AgentStates, debugInfo \in AttemptHops :
          QueuesCreate(call, sshKeywords, agent, debugInfo)
    \/ \E call \in QueueCalls : QueuesProbe(call)

SpecQueues == QueuesInit /\ [][QueuesNext]_vars

\* the attempt of a human who never answers: the steps of the program and of
\* the clock are always taken in the end
FairSpecSilent == AttemptInit /\ [][SilentNext]_vars /\ WF_vars(SilentNext)

(***************************************************************************)
(* Properties of the host-key verifier                                     *)
(***************************************************************************)
\* a step in which the handshake calls the verifier v
CallStep(v) == ver[v].pc = "idle" /\ ver'[v].ncalls = ver[v].ncalls + 1

\* a step in which the pending prompt of v gets the answer resp
AnswerStep(v, resp) ==
    ver[v].pc = "prompt" /\ ver'[v].answers = Append(ver[v].answers, resp)

PromptFile(r) == LoopFiles(r, r.phase)[r.idx]

HostListed(lines, a) == \E i \in 1..Len(lines) : LineMatches(lines[i], a)
KeyListed(lines, a, k) ==
    \E i \in 1..Len(lines) : LineMatches(lines[i], a) /\ lines[i].key = k

\* C1: when the store loaded by the verifier holds host A and the key presented
\* for A is not one the store lists for A, the call fails at once, with no
\* prompt and no change to any known-hosts file.
ChangedKeyNeverAccepted ==
    [][\A v \in Vers :
        (/\ CallStep(v)
         /\ ver[v].hasDb
         /\ HostListed(ver[v].db, ver'[v].host)
         /\ ~KeyListed(ver[v].db, ver'[v].host, ver'[v].key))
        => (/\ ver'[v].pc = "idle"
            /\ ver'[v].res \notin {"ok", "none"}
            /\ ver'[v].asked = <<>>
            /\ ver'[v].wrote = <<>>
            /\ fs' = fs)]_vars

ChangedKeySeen ==
    \E v \in Vers :
        /\ ver[v].res = "changed"
        /\ HostListed(ver[v].db, ver[v].host)
        /\ ~KeyListed(ver[v].db, ver[v].host, ver[v].key)

\* the store on disk, read from the files the verifier uses now
StoreOnDisk(fsys, r) == NewDB(fsys, r.files)
StoreMatches(fsys, r, a, k) ==
    /\ StoreOnDisk(fsys, r).err = "nil"
    /\ DbCheck(StoreOnDisk(fsys, r).lines, a, k) = "match"

\* C2: a call returns success only if the store loaded at construction matches
\* (host, key), or the call appended a line after a confirmation and the store
\* read again from the updated files matches.
SuccessOnlyOnMatch ==
    [][\A v \in Vers :
        (ver'[v].pc = "idle" /\ ver'[v].res = "ok"
            /\ (CallStep(v) \/ ver[v].pc = "prompt"))
        => \/ (ver[v].hasDb
                 /\ DbCheck(ver[v].db, ver'[v].host, ver'[v].key) = "match")
           \/ (/\ ver'[v].wrote # <<>>
               /\ ver'[v].answers # <<>>
               /\ ver'[v].answers[Len(ver'[v].answers)] = "yes"
               /\ StoreMatches(fs', ver'[v], ver'[v].host, ver'[v].key))]_vars

LearnedSuccessSeen ==
    \E v \in Vers : ver[v].res = "ok" /\ ver[v].wrote # <<>>

\* C3: after "no" to the prompt for a readable file, the next readable
\* file (one that can be opened) is prompted for; after "yes" the line is
\* appended and no further file is prompted for.
RejectionMovesToNextFile ==
    [][\A v \in Vers :
        /\ (/\ AnswerStep(v, "no")
            /\ ver[v].phase = "readable"
            /\ ver[v].idx < Len(ver[v].files)
            /\ fs[ver[v].files[ver[v].idx + 1]].mode # "ro")
           => (/\ ver'[v].pc = "prompt"
               /\ ver'[v].asked = Append(ver[v].asked,
                                          ver[v].files[ver[v].idx + 1]))
        /\ (AnswerStep(v, "yes") /\ fs[PromptFile(ver[v])].mode = "rw")
           => (ver'[v].pc = "idle" /\ ver'[v].asked = ver[v].asked)]_vars

\* C4: a cancellation or timeout of a confirmation prompt ends the call at once
\* with UserInputCancelError; no other file is prompted for and nothing is
\* written.
CancelAbortsVerification ==
    [][\A v \in Vers :
        AnswerStep(v, "cancel")
        => (/\ ver'[v].pc = "idle"
            /\ ver'[v].res = "cancel"
            /\ ver'[v].asked = ver[v].asked
            /\ ver'[v].wrote = <<>>
            /\ fs' = fs)]_vars

CancelWithFilesLeftSeen ==
    \E v \in Vers :
        /\ ver[v].res = "cancel"
        /\ ver[v].answers # <<>>
        /\ ver[v].answers[Len(ver[v].answers)] = "cancel"
        /\ \/ ver[v].phase = "readable"
                /\ (ver[v].idx < Len(ver[v].files) \/ ver[v].unread # <<>>)
           \/ ver[v].phase = "unreadable" /\ ver[v].idx < Len(ver[v].unread)

KeyRevoked(lines, k) ==
    \E i \in 1..Len(lines) : lines[i].marker = "revoked" /\ lines[i].key = k

\* C5: when the loaded store lists the presented key as revoked, the call
\* fails with the store's RevokedError, with no prompt and no file changed.
RevokedKeyRefused ==
    [][\A v \in Vers :
        (CallStep(v) /\ ver[v].hasDb /\ KeyRevoked(ver[v].db, ver'[v].key))
        => (/\ ver'[v].pc = "idle"
            /\ ver'[v].res = "revoked"
            /\ ver'[v].asked = <<>>
            /\ ver'[v].wrote = <<>>
            /\ fs' = fs)]_vars

RevokedKeySeen ==
    \E v \in Vers :
        /\ ver[v].res = "revoked"
        /\ ver[v].ncalls > 0
        /\ KeyRevoked(ver[v].db, ver[v].key)

\* C6: once (host, key) is trusted, that is the known-hosts files of the
\* verifier match it, every verification of it succeeds with no prompt and no
\* line appended, also on the verifier instance that learned it.
TrustedKeyNeverPromptsAgain ==
    [][\A v \in Vers, a \in HostAddrs, k \in Keys :
        (/\ CallStep(v)
         /\ ver'[v].host = a
         /\ ver'[v].key = k
         /\ StoreMatches(fs, ver[v], a, k))
        => (/\ ver'[v].pc = "idle"
            /\ ver'[v].res = "ok"
            /\ ver'[v].asked = <<>>
            /\ fs' = fs)]_vars

\* C7: when the selected known-hosts lists hold no path that expands, the
\* construction of the verifier fails and no verifier is returned.
NoKnownHostsFilesFails ==
    \A v \in Vers :
        (ver[v].st # "none" /\ ver[v].noPaths)
        => (ver[v].st = "failed" /\ ~ver[v].hasDb /\ ver[v].files = <<>>)

\* a construction that failed for want of a path
NoKnownHostsFilesSeen ==
    \E v \in Vers : ver[v].st = "failed" /\ ver[v].noPaths

(***************************************************************************)
(* Properties of the proxy-jump chain                                      *)
(***************************************************************************)
DepthError == cstate = "err" /\ cret.err.kind = "depth"

\* C8: calls never nest deeper than SshProxyJumpMaxDepth below the target; the
\* call that would nest SshProxyJumpMaxDepth + 1 deep fails the whole Connect
\* with the depth-exceeded error, and when Connect fails with it no dial or
\* handshake of the target hop has been issued.
ProxyJumpDepthBounded ==
    /\ [](Len(stack) <= SshProxyJumpMaxDepth + 1)
    /\ [][(/\ cstate = "running"
           /\ Len(stack) = SshProxyJumpMaxDepth + 1
           /\ Top.pc = "jump"
           /\ ~ParseOpts(Top.jump[Top.idx]).err)
          => (cstate' = "err" /\ cret'.err.kind = "depth")]_vars
    /\ [](DepthError
            => (/\ cret.client = NoClient
                /\ cret.jumpNum > SshProxyJumpMaxDepth
                /\ \A i \in 1..Len(netlog) : netlog[i].level # 1))

DepthExceededSeen == DepthError /\ cret.nest = SshProxyJumpMaxDepth + 2

\* C9: every Connect ends, with a transport or with an error, whatever the
\* ProxyJump configuration, cyclic ones included.
ConnectTerminates == <>(cstate \in {"ok", "err"})

CyclicChainEnded ==
    /\ DepthError
    /\ cfg["j"].jump # <<>>
    /\ cfg["j"].jump[1] = "j"
    /\ cret.err.opts.host = "j"

OkHandshakes(log) == SelectSeq(log, LAMBDA x : x.op = "handshake" /\ x.ok)

\* C10: every hop is dialed through the transport established immediately
\* before it (directly when there is none); a hop with ProxyJump entries is
\* dialed only after each entry, in order, has completed its handshake one
\* level deeper, and through the transport of the last entry.
HopsConnectInOrder ==
    \A i \in 1..Len(netlog) :
        LET e == netlog[i]
            before == SubSeq(netlog, 1, i - 1)
            n == Len(OkHandshakes(before))
            below == SelectSeq(OkHandshakes(before),
                               LAMBDA x : x.level = e.level + 1)
            m == Len(e.jump)
        IN e.op \in {"tcp", "channel"}
           => /\ e.via = n
              /\ (e.op = "channel") = (n > 0)
              /\ m > 0 =>
                   /\ Len(below) >= m
                   /\ \A k \in 1..m :
                        below[Len(below) - m + k].host
                            = ParseOpts(e.jump[k]).opts.host
                   /\ clients[e.via].host = ParseOpts(e.jump[m]).opts.host

TargetDialedThroughJumps ==
    \E i \in 1..Len(netlog) :
        /\ netlog[i].op = "channel"
        /\ netlog[i].level = 1
        /\ Len(netlog[i].jump) = 2
        /\ netlog[i].ok

\* C11: when a hop of the chain fails, Connect returns its error with no
\* transport and nothing is left running; a failed dial or handshake is the
\* last network operation of the attempt.
FailedChainReturnsNothing ==
    /\ \A i \in 1..(Len(netlog) - 1) : netlog[i].ok
    /\ cstate = "ok" => \A i \in 1..Len(netlog) : netlog[i].ok
    /\ cstate = "err" => (cret.client = NoClient /\ stack = <<>>)

\* a hop failed its handshake after an earlier hop had been established
LaterHopFailed ==
    /\ cstate = "err"
    /\ cret.err.kind = "handshake"
    /\ Len(clients) >= 1
    /\ ~netlog[Len(netlog)].ok

\* the keywords a hop gets from its parsed name, the ssh config and the saved
\* settings alone
KeywordsOfHop(opts) ==
    combineSshKeywords(FlagsOfHop(ZeroKeywords, opts),
                       findSshConfigKeywords(ConfigStore(cfg, {opts.host}, "ok"), opts.host,
                                             NoAuthSock).kw,
                       SavedKeywords(String(opts)), UserCurrent("ok")).kw

\* C12: every call made for a ProxyJump entry has empty caller flags, and its
\* effective keywords are those of its parsed name, the ssh config and the
\* saved settings, whatever flags the caller gave for the target.
ProxiesGetNoCallerFlags ==
    \A i \in 2..Len(stack) :
        /\ stack[i].flags = FlagsOfHop(ZeroKeywords, stack[i].opts)
        /\ stack[i].kw = KeywordsOfHop(stack[i].opts)

\* a proxy is being connected to for a caller that gave an identity file
ProxyOfFlaggedTarget ==
    /\ Len(stack) >= 2
    /\ stack[1].flags.SshIdentityFile = <<"~/enc2">>
    /\ stack[1].kw.SshIdentityFile = <<"~/enc2">>
    /\ \A k \in 1..Len(stack[2].kw.SshIdentityFile) :
          stack[2].kw.SshIdentityFile[k] # "~/enc2"

ErrorKinds ==
    {"depth", "config", "merge", "parse", "clientconfig", "dial", "handshake"}

\* C13: every error of Connect is a ConnectionError with the context of the
\* hop that failed: its options, the transport it would have been reached
\* through and its jump number, whatever step failed and however deep.
ErrorsCarryHopContext ==
    [][(cstate # "err" /\ cstate' = "err")
        => LET e == cret'.err IN
           /\ e.kind \in ErrorKinds
           /\ cret'.jumpNum = e.jumpNum
           /\ (stack = <<>>)
                => (/\ e.kind \in {"depth", "config", "merge"}
                    /\ e.cur = NoClient
                    /\ e.jumpNum = 0
                    /\ e.opts.host \in HostNames)
           /\ (stack # <<>> /\ e.kind \in {"depth", "config", "merge"})
                => (/\ Top.pc = "jump"
                    /\ e.opts = ParseOpts(Top.jump[Top.idx]).opts
                    /\ e.cur = Top.cur
                    /\ e.jumpNum = Top.jumpNum + 1)
           /\ (stack # <<>> /\ e.kind \in {"parse", "clientconfig", "dial", "handshake"})
                => (/\ e.opts = Top.opts
                    /\ e.cur = Top.cur
                    /\ e.jumpNum = Top.dbgJump)
           /\ e.kind \in {"dial", "handshake"}
                => (/\ netlog' # netlog
                    /\ ~netlog'[Len(netlog')].ok
                    /\ netlog'[Len(netlog')].via = e.cur
                    /\ netlog'[Len(netlog')].jumpNum = e.jumpNum)]_vars

\* a hop reached through an established transport failed below the target
DeepErrorSeen ==
    /\ cstate = "err"
    /\ cret.nest >= 2
    /\ cret.err.cur # NoClient
    /\ cret.err.jumpNum >= 2
    /\ cret.err.kind \in {"clientconfig", "dial", "handshake"}

(***************************************************************************)
(* Properties of the authentication of one hop                             *)
(***************************************************************************)
AgentOffers(o) == SelectSeq(o, LAMBDA c : c.src = "agent")

\* C14: in every attempt the agent's signers are offered in the agent's order
\* and before every signer of an identity file, and no identity file gives
\* its signer twice, whatever identity-file list the merge produced.
AgentFirstEachFileOnce ==
    LET o == att.offered IN
    /\ \A i \in 1..Len(o), j \in 1..Len(o) :
          (i < j /\ o[i].src = "file") => o[j].src # "agent"
    /\ \A i \in 1..Len(AgentOffers(o)) : AgentOffers(o)[i].id = att.signers[i]
    /\ \A i \in 1..Len(o), j \in 1..Len(o) :
          (i < j /\ o[i].src = "file" /\ ~o[i].dummy
                 /\ o[j].src = "file" /\ ~o[j].dummy) => o[i].id # o[j].id

IsUserCancel(err) == \E i \in 1..Len(err) : err[i] = "UserInputCancelError"

WrongPassphrase == [kind |-> "passphrase", resp |-> "wrong"]
CancelledPassphrase == [kind |-> "passphrase", resp |-> "cancel"]

\* C15: without batch mode, when the human has given a wrong passphrase and
\* cancels the next passphrase prompt, the attempt ends at once with a
\* user-cancelled error, not with the exhaustion error, and no identity file
\* is taken from the queue, offered or prompted for after that.
CancelAfterWrongPassphraseAborts ==
    [][/\ (/\ att.pc = "prompt"
            /\ att.prompt.kind = "passphrase"
            /\ ~att.kw.SshBatchMode
            /\ \E i \in 1..Len(att.answers) : att.answers[i] = WrongPassphrase
            /\ att'.answers = Append(att.answers, CancelledPassphrase))
           => (/\ att'.pc = "done"
               /\ att'.res = "err"
               /\ IsUserCancel(att'.err)
               /\ \A i \in 1..Len(att'.err) :
                     att'.err[i] # "no identity files remaining"
               /\ att'.probe = att.probe
               /\ att'.offered = att.offered)
       /\ att.pc = "done" => att' = att]_vars

\* a wrong passphrase, then a cancelled prompt, with an identity file left
WrongThenCancelSeen ==
    /\ att.pc = "done"
    /\ att.answers = <<WrongPassphrase, CancelledPassphrase>>
    /\ att.probe.identityFiles # <<>>
    /\ IsUserCancel(att.err)

\* C16: an attempt that ended because the human cancelled a prompt or left it
\* unanswered, whatever the prompt, returns an error that holds a
\* UserInputCancelError.
CancelSurfacesAsUserCancel ==
    /\ (/\ att.pc = "done"
         /\ att.answers # <<>>
         /\ att.answers[Len(att.answers)].resp \in {"cancel", "timeout"})
        => IsUserCancel(att.err)
    /\ \A v \in Vers :
          (/\ att.pc = "done"
           /\ ver[v].answers # <<>>
           /\ ver[v].answers[Len(ver[v].answers)] \in {"cancel", "timeout"})
          => IsUserCancel(att.err)

\* C17: once connCtx is cancelled, a pending prompt or dial only ends the
\* attempt: no prompt takes an answer and no known-hosts file is written.
CancelledContextEndsPromptsAndDials ==
    [][ctx = "cancelled"
        => /\ (att.pc \in {"prompt", "dial"} /\ att' # att)
                => (att'.pc = "done" /\ att'.res = "err")
           /\ \A v \in Vers :
                (ver[v].pc = "prompt" /\ ver'[v] # ver[v])
                    => (/\ ver'[v].pc = "idle"
                        /\ ver'[v].res = "cancel"
                        /\ fs' = fs)]_vars

PromptPending == att.pc = "prompt" \/ \E v \in Vers : ver[v].pc = "prompt"

\* C18: every prompt waits the same 60 seconds, and an attempt whose prompt
\* the human never answers ends with an error.
UnansweredPromptsEnd ==
    /\ [](\A k \in PromptKinds : PromptWait(k) = PromptSeconds)
    /\ [](PromptPending => <>(att.pc = "done" /\ att.res = "err"))

\* the attempt ended on the deadline of a prompt
PromptTimedOut ==
    /\ att.pc = "done"
    /\ att.res = "err"
    /\ \/ (att.answers # <<>> /\ att.answers[Len(att.answers)].resp = "timeout")
       \/ \E v \in Vers :
            ver[v].answers # <<>> /\ ver[v].answers[Len(ver[v].answers)] = "timeout"

\* the enable flag of a method
EnableFlag(sshKeywords, n) ==
    CASE n = "publickey" -> sshKeywords.SshPubkeyAuthentication
      [] n = "keyboard-interactive" -> sshKeywords.SshKbdInteractiveAuthentication
      [] n = "password" -> sshKeywords.SshPasswordAuthentication
      [] OTHER -> FALSE

\* C19 as stated: the methods built are the preferred list, in its order,
\* restricted to the supported methods whose enable flag is on.
MethodsArePreferredEnabled ==
    att.pc # "config"
        => att.methods =
              SelectSeq(att.kw.SshPreferredAuthentications,
                        LAMBDA n : n \in SupportedMethods /\ EnableFlag(att.kw, n))

\* C19: the methods built are the preferred list, in its order, restricted to
\* the supported methods whose enable flag is on and, for keyboard-interactive
\* and password, only when batch mode is off.
MethodsArePreferredActive ==
    att.pc # "config"
        => att.methods =
              SelectSeq(att.kw.SshPreferredAuthentications,
                        LAMBDA n : /\ n \in SupportedMethods
                                   /\ EnableFlag(att.kw, n)
                                   /\ n = "publickey" \/ ~att.kw.SshBatchMode)

\* batch mode left the enabled and preferred password method out
BatchDropsPassword ==
    /\ att.pc # "config"
    /\ att.kw.SshBatchMode
    /\ att.kw.SshPasswordAuthentication
    /\ att.kw.SshPreferredAuthentications = <<"password", "publickey">>
    /\ att.methods = <<"publickey">>

\* C20: the tries of the public-key method are the candidates its callback
\* holds at construction, queued identity files plus agent signers, and the
\* keyboard-interactive and password methods have one try each.
RetryBudgetIsCandidateCount ==
    att.pc # "config"
        => \A i \in 1..Len(att.methods) :
              att.maxTries[i] =
                  IF att.methods[i] = "publickey"
                  THEN Len(att.queued) + Len(att.signers)
                  ELSE 1

\* the entries of the identity-file queue the callback has taken so far
Taken(a) == Len(a.queued) - Len(a.probe.identityFiles)

\* the key of the file cannot be used and no passphrase would help, or batch
\* mode forbids the prompt
MustSkip(sshKeywords, identityFile) ==
    LET key == ExistingKey(identityFile) IN
    \/ ParseRawPrivateKey(key) = "error"
    \/ ParseRawPrivateKey(key) = "ok" /\ NewSignerFromKey(key) = "error"
    \/ ParseRawPrivateKey(key) = "PassphraseMissingError" /\ sshKeywords.SshBatchMode

\* the invocation ended with the placeholder of queue entry k
SkippedEntry(a, a2, k) ==
    /\ k \in 1..Len(a.queued)
    /\ a2.cred = [src |-> "file", id |-> a.queued[k], dummy |-> TRUE]
    /\ a2.offered = Append(a.offered, a2.cred)
    /\ a2.probe.identityFiles = SubSeq(a.queued, k + 1, Len(a.queued))
    /\ a2.probe.authSockSigners = <<>>
    /\ a2.pc = "offer"
    /\ a2.res = "none"
    /\ a2.err = <<>>
    /\ a2.agentKeys = a.agentKeys

\* C21: an invocation of the public-key callback that meets a key it must
\* skip (a parse error other than a missing passphrase, an encrypted key in
\* batch mode, a wrong passphrase, a key no signer can be made of) takes that
\* entry from the queue, returns a placeholder signer and no error, and leaves
\* the attempt running; every invocation takes the head of the queue, so the
\* entry is not met again and the next invocation meets the entry after it.
SkippedKeyReturnsPlaceholder ==
    [][/\ (att.pc = "auth" /\ att'.probe.identityFiles # att.probe.identityFiles)
            => /\ att.probe.authSockSigners = <<>>
               /\ att'.probe.identityFiles = Tail(att.probe.identityFiles)
               /\ Head(att.probe.identityFiles) = att.queued[Taken(att')]
               /\ MustSkip(att.kw, Head(att.probe.identityFiles))
                    => SkippedEntry(att, att', Taken(att'))
       /\ (/\ att.pc = "prompt"
            /\ att.prompt.kind = "passphrase"
            /\ att'.answers = Append(att.answers, WrongPassphrase))
            => (/\ att.prompt.file = att.queued[Taken(att)]
                /\ SkippedEntry(att, att', Taken(att)))
       /\ (att'.offered # att.offered /\ att'.cred.dummy)
            => (/\ SkippedEntry(att, att', Taken(att'))
                /\ \/ att.pc = "prompt"
                   \/ MustSkip(att.kw, att'.cred.id))]_vars

\* three entries were skipped in a row, each for another reason: no signer
\* can be made of the first key, the second is encrypted and batch mode is
\* on, the third does not parse
ThreeKeysSkipped ==
    /\ att.kw.SshBatchMode
    /\ att.queued = <<"~/odd", "~/enc2", "~/garbage">>
    /\ Len(att.offered) = 3
    /\ \A i \in 1..3 : att.offered[i].dummy /\ att.offered[i].id = att.queued[i]
    /\ att.probe.identityFiles = <<>>

Exhaustion == "no identity files remaining"
HoldsExhaustion(err) == \E i \in 1..Len(err) : err[i] = Exhaustion

\* the ssh library is about to ask the public-key callback for a signer
PublicKeyAsked ==
    /\ att.pc = "auth"
    /\ att.mi <= Len(att.methods)
    /\ att.methods[att.mi] = "publickey"
    /\ att.maxTries[att.mi] <= 0 \/ att.tries < att.maxTries[att.mi]

\* C22: when the public-key callback is asked for a signer and holds neither
\* an agent signer nor an identity file, it returns no signer and a
\* ConnectionError that says so and carries the debug context of the hop; the
\* attempt does not go on as if a credential had been given.  That error is
\* returned in no other case.
ExhaustedProbeReturnsError ==
    [][/\ (/\ PublicKeyAsked
            /\ att.probe.authSockSigners = <<>>
            /\ att.probe.identityFiles = <<>>
            /\ att' # att)
            => (/\ att'.pc = "done"
                /\ att'.res = "err"
                /\ att'.err = HandshakeError(<<"ConnectionError", Exhaustion>>)
                /\ att'.errInfo = att.debugInfo
                /\ att'.errInfo.NextOpts = AttemptOpts
                /\ att'.offered = att.offered
                /\ att'.cred = att.cred
                /\ att'.probe = att.probe)
       /\ (~HoldsExhaustion(att.err) /\ HoldsExhaustion(att'.err))
            => (/\ PublicKeyAsked
                /\ att.probe.authSockSigners = <<>>
                /\ att.probe.identityFiles = <<>>)]_vars

\* a hop one jump deep ran out of candidates after the server had refused
\* the signers of the agent
ProbeExhaustedSeen ==
    /\ att.pc = "done"
    /\ HoldsExhaustion(att.err)
    /\ att.errInfo.JumpNum = 1
    /\ att.errInfo.CurrentClient # NoClient
    /\ Len(att.offered) = 2

\* what the prompts of the challenge got, in the order they were issued
KbdLog == SelectSeq(att.answers, LAMBDA x : x.kind = "kbd")
PromptFailed(resp) == resp \in {"cancel", "timeout", "ctx"}

\* C23: a challenge whose questions and echo flags differ in number ends with
\* an error before any prompt; otherwise the prompts issued are those of the
\* questions, in the server's order and with their echo flags, one at a time;
\* the answers returned are the responses to those prompts, one per question
\* and in that order; the first prompt that fails ends the challenge with an
\* error and no further question is asked.
ChallengeAnswersInOrder ==
    LET c == att.kbd
        n == Len(c.questions)
    IN c.out # "none" =>
        /\ Len(c.questions) # Len(c.echos)
             => (/\ c.out = "error"
                 /\ c.asked = <<>>
                 /\ KbdLog = <<>>
                 /\ att.pc = "done"
                 /\ att.err = HandshakeError(ChallengeMismatch))
        /\ Len(c.questions) = Len(c.echos)
             => /\ Len(c.asked) <= n
                /\ \A i \in 1..Len(c.asked) :
                      c.asked[i] = [QueryText |-> c.questions[i],
                                    PublicText |-> c.echos[i]]
                /\ \A i \in 1..Len(KbdLog) :
                      PromptFailed(KbdLog[i].resp)
                          => (i = Len(KbdLog) /\ c.out = "error")
                /\ c.out = "running"
                     => (/\ att.pc = "prompt"
                         /\ att.prompt.kind = "kbd"
                         /\ Len(c.asked) = Len(KbdLog) + 1)
                /\ c.out = "answers"
                     => (/\ Len(c.asked) = n
                         /\ Len(KbdLog) = n
                         /\ Len(c.answers) = n
                         /\ \A i \in 1..n : c.answers[i] = KbdLog[i].resp)
                /\ c.out = "error"
                     => (/\ att.pc = "done"
                         /\ att.res = "err"
                         /\ KbdLog # <<>>
                         /\ PromptFailed(KbdLog[Len(KbdLog)].resp)
                         /\ Len(c.asked) = Len(KbdLog))

\* two questions were answered differently and both answers were returned
TwoAnswersReturned ==
    /\ att.kbd.out = "answers"
    /\ att.kbd.questions = <<"q2", "q1">>
    /\ att.kbd.answers = <<"right", "wrong">>

(***************************************************************************)
(* Properties of the keywords of one hop                                   *)
(***************************************************************************)
\* the merge of the three sources has returned its keywords
Merged == rsv.pc = "done"

\* C24: the port of the merge is the port of the caller when that is neither
\* 0 (unset) nor 22; otherwise the port of the ssh config when that is set
\* and not 22; otherwise 22.  A port 0 or 22 of the caller never replaces
\* another port of the ssh config.
PortPrecedence ==
    Merged =>
        LET caller == rsv.opts.port
            config == rsv.find.kw.SshPort
        IN /\ rsv.res.kw.SshPort =
                 IF caller # 0 /\ caller # 22 THEN PortString(caller)
                 ELSE IF config # "" /\ config # "22" THEN config
                 ELSE "22"
           /\ (caller \in {0, 22} /\ config \notin {"", "22"})
                => rsv.res.kw.SshPort = config

\* the caller asked for port 22 and the ssh config names port 2200
ConfigPortKept ==
    /\ Merged
    /\ rsv.opts.port = 22
    /\ rsv.find.kw.SshPort = "2200"
    /\ rsv.res.kw.SshPort = "2200"

ConfigOnlyFields ==
    {"SshBatchMode", "SshPubkeyAuthentication", "SshPasswordAuthentication",
     "SshKbdInteractiveAuthentication", "SshPreferredAuthentications",
     "SshAddKeysToAgent", "SshIdentityAgent", "SshProxyJump",
     "SshUserKnownHostsFile", "SshGlobalKnownHostsFile"}

\* C25: batch mode, the three enable flags, the preferred methods, the
\* agent-add flag, the identity-agent path, the ProxyJump list and both
\* known-hosts lists of the merge are those of the ssh config, whatever the
\* caller and the saved settings hold for them; so two merges that differ
\* only in what the caller holds for them agree on them.
ConfigOnlyFieldsFromConfig ==
    Merged => \A field \in ConfigOnlyFields :
                  rsv.res.kw[field] = rsv.find.kw[field]

\* the caller or the saved settings hold another value than the ssh config
\* for every such keyword, and the caller asks for batch mode
CallerValuesNotHonored ==
    /\ Merged
    /\ \A field \in ConfigOnlyFields :
          /\ \/ rsv.userProvidedOpts[field] # rsv.find.kw[field]
             \/ rsv.savedKeywords[field] # rsv.find.kw[field]
          /\ rsv.res.kw[field] = rsv.find.kw[field]
    /\ rsv.userProvidedOpts.SshBatchMode
    /\ rsv.userProvidedOpts.SshProxyJump # <<>>
    /\ ~rsv.res.kw.SshBatchMode
    /\ rsv.res.kw.SshProxyJump = <<>>

\* C26: the user of the merge is the user of the caller when that is not
\* empty, otherwise the user of the ssh config when that is not empty,
\* otherwise the name of the local OS user; the OS user is looked at only
\* when both are empty, so only then can its lookup fail the merge.
UserPrecedence ==
    /\ Merged =>
          rsv.res.kw.SshUser =
              IF rsv.opts.user # "" THEN rsv.opts.user
              ELSE IF rsv.find.kw.SshUser # "" THEN rsv.find.kw.SshUser
              ELSE rsv.current.Username
    /\ (Merged /\ (rsv.opts.user # "" \/ rsv.find.kw.SshUser # ""))
          => rsv.res.kw.SshUser # "me"
    /\ (rsv.pc = "failed" /\ ~rsv.find.err)
          => (rsv.opts.user = "" /\ rsv.find.kw.SshUser = "" /\ rsv.current.err)

\* the caller names no user, the ssh config names bob, and the OS user,
\* whose lookup would fail, is not asked for
ConfigUserUsed ==
    /\ Merged
    /\ rsv.opts.user = ""
    /\ rsv.find.kw.SshUser = "bob"
    /\ rsv.current.err
    /\ rsv.res.kw.SshUser = "bob"

\* C27: the host name of the merge is the HostName of the ssh config when
\* that is not empty, otherwise the host the caller gave.
HostNamePrecedence ==
    Merged =>
        rsv.res.kw.SshHostName =
            IF rsv.find.kw.SshHostName # "" THEN rsv.find.kw.SshHostName
            ELSE rsv.opts.host

\* the ssh config rewrites the host the caller gave
ConfigHostNameUsed ==
    /\ Merged
    /\ rsv.opts.host = HopPattern
    /\ rsv.find.kw.SshHostName = "h.example"
    /\ rsv.res.kw.SshHostName = "h.example"

\* C28: the identity files of the merge are those of the saved settings,
\* then those of the caller, then those of the ssh config, each list in its
\* order and whole: no entry is dropped, moved or merged with an equal one.
IdentityFilesConcatenated ==
    Merged =>
        rsv.res.kw.SshIdentityFile =
            rsv.savedKeywords.SshIdentityFile
                \o rsv.flags.SshIdentityFile
                \o rsv.find.kw.SshIdentityFile

\* the three sources name two files each and all name ~/plain
DuplicateIdentityFilesKept ==
    /\ Merged
    /\ rsv.res.kw.SshIdentityFile =
          <<"~/enc", "~/plain", "~/enc2", "~/plain", "~/plain", "~/enc">>

\* C29: when a lookup of the ssh config gives an error, whatever key it
\* is for, the two known-hosts keys included, the resolution ends with
\* that error and no keywords are built.
LookupErrorAbortsResolution ==
    rsv.pc # "find" =>
        \A key \in ConfigKeySet :
            rsv.store[key].err => (rsv.find.err /\ rsv.pc = "failed")

\* C30: when the local user is root the known-hosts files are the global
\* files of the keywords alone; for any other user they are the user files
\* in their order followed by the global files in their order.  The names
\* that expand are kept in that order.
KnownHostsFilesSelected ==
    rsv.pc = "selected" =>
        LET ukh == rsv.res.kw.SshUserKnownHostsFile
            gkh == rsv.res.kw.SshGlobalKnownHostsFile
            expected == IF rsv.osUser.Username = "root" THEN gkh ELSE ukh \o gkh
        IN /\ rsv.unexpandedKnownHostsFiles = expected
           /\ Len(rsv.knownHostsFiles) <= Len(expected)
           /\ rsv.knownHostsFiles =
                 LET ok == SelectSeq(expected, LAMBDA n : ~ExpandHomeDir(n).err)
                 IN [i \in 1..Len(ok) |-> ExpandHomeDir(ok[i]).path]

\* root: the two user files of the ssh config are left out
RootIgnoresUserFiles ==
    /\ rsv.pc = "selected"
    /\ rsv.osUser.Username = "root"
    /\ rsv.res.kw.SshUserKnownHostsFile = <<"~/kh", "/etc/kh">>
    /\ rsv.res.kw.SshGlobalKnownHostsFile = <<"/etc/kh">>
    /\ rsv.knownHostsFiles = <<"/etc/kh">>

(***************************************************************************)
(* Properties of the store construction and of the unknown-host path       *)
(***************************************************************************)
\* a step in which createHostKeyCallback returns the verifier v
ConstructStep(v) ==
    /\ ver[v].pc = "idle"
    /\ ver[v].st = "none" \/ ver[v].res # "none"
    /\ ver'[v].pc = "idle"
    /\ ver'[v].st # "none"
    /\ ver'[v].res = "none"

\* the file opens and every line of it parses
Loadable(fsys, f) ==
    /\ fsys[f].exists
    /\ \A i \in 1..Len(fsys[f].lines) : fsys[f].lines[i].marker # "bad"

\* C31: a known-hosts file that does not load or parse is dropped into the
\* unreadable list and the store is built from the files left; the
\* construction does not fail while one of its files is usable.
BadFileNeverFailsConstruction ==
    [][\A v \in Vers :
        ConstructStep(v)
        => /\ ver'[v].st = "ready"
              => (/\ \A i \in 1..Len(ver'[v].files) :
                        Loadable(fs, ver'[v].files[i])
                  /\ \A i \in 1..Len(ver'[v].unread) :
                        ~Loadable(fs, ver'[v].unread[i])
                  /\ ver'[v].hasDb = (ver'[v].files # <<>>))
           /\ ver'[v].st = "failed"
              => \A i \in 1..Len(ver'[v].files) :
                    ~Loadable(fs, ver'[v].files[i])]_vars

\* a step in which the call of v ends or suspends at a prompt
CallMoves(v) == CallStep(v) \/ ver[v].pc = "prompt"

\* the file cannot take a new line: it does not open for appending or the
\* write to it fails
RefusesWrite(fsys, f) == fsys[f].mode \in {"ro", "full"}

\* C32: the unreadable files are prompted for only when every readable file
\* refused the write; a confirmed write to an unreadable file makes it the
\* only known-hosts file of the final lookup, whose answer is the answer of
\* the call; when every file refuses the write the call fails.
UnreadableFilesAreLastResort ==
    [][\A v \in Vers :
        /\ (CallMoves(v) /\ ver'[v].pc = "prompt"
                /\ ver'[v].phase = "unreadable")
           => (/\ ver'[v].wrote = <<>>
               /\ \A i \in 1..Len(ver'[v].files) :
                     RefusesWrite(fs', ver'[v].files[i])
               /\ \A j \in 1..(ver'[v].idx - 1) :
                     RefusesWrite(fs', ver'[v].unread[j]))
        /\ (/\ AnswerStep(v, "yes")
            /\ ver[v].phase = "unreadable"
            /\ ~RefusesWrite(fs, PromptFile(ver[v])))
           => (/\ ver'[v].pc = "idle"
               /\ ver'[v].files = <<PromptFile(ver[v])>>
               /\ ver'[v].wrote = <<PromptFile(ver[v])>>
               /\ fs'[PromptFile(ver[v])].lines =
                     Append(fs[PromptFile(ver[v])].lines,
                            Line(Normalize(ver[v].host), ver[v].key))
               /\ (ver'[v].res = "ok")
                     = (/\ Loadable(fs', PromptFile(ver[v]))
                        /\ DbCheck(fs'[PromptFile(ver[v])].lines,
                                   ver[v].host, ver[v].key) = "match"))
        /\ (CallMoves(v) /\ ver'[v].pc = "idle" /\ ver'[v].res = "unable")
           => (/\ ver'[v].wrote = <<>>
               /\ \A i \in 1..Len(ver'[v].files) :
                     RefusesWrite(fs', ver'[v].files[i])
               /\ \A i \in 1..Len(ver'[v].unread) :
                     RefusesWrite(fs', ver'[v].unread[i]))]_vars

\* a readable file was confirmed and refused the write, then an unreadable
\* file took the line and answered the final lookup
UnreadableFileBecameStore ==
    \E v \in Vers :
        /\ ver[v].pc = "idle"
        /\ ver[v].res = "ok"
        /\ ver[v].phase = "unreadable"
        /\ Len(ver[v].asked) = 2
        /\ ver[v].answers = <<"yes", "yes">>
        /\ ver[v].wrote = <<ver[v].asked[2]>>
        /\ ver[v].files = <<ver[v].asked[2]>>

\* C37: a verification whose confirmation prompt is rejected, cancelled or
\* timed out leaves every known-hosts file as the call found it: none is
\* created and none is changed.
RejectedPromptChangesNoFile ==
    \A v \in Vers :
        (ver[v].pc = "idle" /\ ver[v].res = "cancel") => fs = ver[v].fs0

\* the lines a verification may append: one host and one key, unmarked
HostKeyLines == {Line(Normalize(a), k) : a \in HostAddrs, k \in Keys}

\* C33: under any interleaving of the steps of two verifiers every step
\* leaves each known-hosts file with the content it had, followed by zero or
\* more whole host-key lines; no file disappears and no entry is rewritten,
\* truncated or reordered.
KnownHostsAppendOnly ==
    [][\A f \in Files :
        /\ fs[f].exists => fs'[f].exists
        /\ Len(fs'[f].lines) >= Len(fs[f].lines)
        /\ SubSeq(fs'[f].lines, 1, Len(fs[f].lines)) = fs[f].lines
        /\ \A i \in (Len(fs[f].lines) + 1)..Len(fs'[f].lines) :
              fs'[f].lines[i] \in HostKeyLines]_vars

\* two verifications that were both under way before either wrote have
\* appended their lines to the same file
ConcurrentAppendsSeen ==
    \E f \in Files :
        /\ ver["v1"].wrote = <<f>>
        /\ ver["v2"].wrote = <<f>>
        /\ ver["v1"].key # ver["v2"].key
        /\ ver["v1"].fs0[f].lines = ver["v2"].fs0[f].lines
        /\ ver["v1"].fs0[f].lines # <<>>
        /\ Len(fs[f].lines) = Len(ver["v1"].fs0[f].lines) + 2

(***************************************************************************)
(* Properties of the shared config loader                                  *)
(***************************************************************************)
\* one call of findSshConfigKeywords has read the settings of two loads: the
\* reload of another attempt ran between two of its lookups
LookupsReadTwoLoads == \E a \in LoaderAttempts : rsv.mixed[a]

\* C34: however the attempts interleave, the shared settings are initialised
\* once, and once they are initialised no step of an attempt changes them.
LoaderReadOnlyAfterInit ==
    [][/\ rsv'.settings.inits <= 1
       /\ rsv.settings.set => rsv'.settings = rsv.settings]_vars

(***************************************************************************)
(* Properties of the queues of the public-key callback                     *)
(***************************************************************************)
\* the identity file expands and os.ReadFile gave its content
WasRead(identityFile) ==
    /\ ~ExpandHomeDir(identityFile).err
    /\ ~ReadFile(ExpandHomeDir(identityFile).path).err

\* C40: an invocation of the public-key callback takes the first agent
\* signer when one is left, otherwise the first identity file of the queue,
\* and nothing else (the file is offered, prompted for, or given up with the
\* error of createDummySigner); with both queues empty it returns the
\* exhaustion error and leaves them empty.  No other step changes the queues, so they never
\* grow.  The queue holds, in order, the identity files that were read at
\* construction and no other: a file that was not read is never queued,
\* offered or prompted for.
ProbeTakesOneCandidate ==
    [][/\ (PublicKeyAsked /\ att' # att)
            => IF att.probe.authSockSigners # <<>>
               THEN /\ att'.probe.authSockSigners =
                          Tail(att.probe.authSockSigners)
                    /\ att'.probe.identityFiles = att.probe.identityFiles
                    /\ att'.pc = "offer"
                    /\ att'.cred = [src |-> "agent", dummy |-> FALSE,
                                    id |-> Head(att.probe.authSockSigners)]
               ELSE IF att.probe.identityFiles # <<>>
               THEN /\ att'.probe.identityFiles = Tail(att.probe.identityFiles)
                    /\ att'.probe.authSockSigners = <<>>
                    /\ \/ /\ att'.pc = "offer"
                          /\ att'.cred.src = "file"
                          /\ att'.cred.id = Head(att.probe.identityFiles)
                       \/ /\ att'.pc = "prompt"
                          /\ att'.prompt.kind = "passphrase"
                          /\ att'.prompt.file = Head(att.probe.identityFiles)
                       \/ /\ att'.pc = "done"
                          /\ att'.err = HandshakeError(<<"createDummySigner">>)
               ELSE /\ att'.pc = "done"
                    /\ HoldsExhaustion(att'.err)
                    /\ att'.probe = att.probe
       /\ (att.pc # "config" /\ ~PublicKeyAsked) => att'.probe = att.probe
       /\ att'.pc # "config"
            => (/\ att'.queued = SelectSeq(att'.kw.SshIdentityFile, WasRead)
                /\ \A i \in 1..Len(att'.offered) :
                      att'.offered[i].src = "file"
                          => WasRead(att'.offered[i].id)
                /\ att'.prompt.kind = "passphrase"
                      => WasRead(att'.prompt.file))]_vars

\* an identity file of the merged list could not be read; the callback gave
\* the two signers of the agent, then the files it had queued, and was asked
\* once more with both queues empty
QueuesRanEmpty ==
    /\ \E i \in 1..Len(att.kw.SshIdentityFile) :
          ~WasRead(att.kw.SshIdentityFile[i])
    /\ att.signers = <<"a1", "a2">>
    /\ att.queued # <<>>
    /\ Len(att.offered) = 2 + Len(att.queued)
    /\ att.probe.authSockSigners = <<>>
    /\ att.probe.identityFiles = <<>>
    /\ att.pc = "done"
    /\ HoldsExhaustion(att.err)

\* the passphrase prompts of the attempt: those answered and the pending one
PassphrasePrompts(a) ==
    Len(SelectSeq(a.answers, LAMBDA x : x.kind = "passphrase"))
        + (IF a.pc = "prompt" /\ a.prompt.kind = "passphrase" THEN 1 ELSE 0)

\* C36: in batch mode the methods hold neither keyboard-interactive nor
\* password, no prompt of an authentication method is issued, and an
\* encrypted identity file is given up with a placeholder signer.  Without
\* batch mode a passphrase prompt is issued only by an invocation of the
\* public-key callback, for the queue entry that invocation took and only
\* when the key of that file parsed with passphrase-required; its answer,
\* right or wrong, is never followed by a second prompt for the entry.
BatchModeNeverPrompts ==
    [][/\ (att'.pc # "config" /\ att'.kw.SshBatchMode)
            => (/\ \A i \in 1..Len(att'.methods) :
                      att'.methods[i] \notin {"keyboard-interactive", "password"}
                /\ att'.pc # "prompt"
                /\ att'.prompt = NoPrompt
                /\ att'.answers = <<>>)
       /\ (/\ PublicKeyAsked
            /\ att.kw.SshBatchMode
            /\ att.probe.authSockSigners = <<>>
            /\ att.probe.identityFiles # <<>>
            /\ ParseRawPrivateKey(ExistingKey(Head(att.probe.identityFiles)))
                  = "PassphraseMissingError"
            /\ att' # att)
            => (/\ att'.pc = "offer"
                /\ att'.cred = [src |-> "file", dummy |-> TRUE,
                                id |-> Head(att.probe.identityFiles)])
       /\ (att'.pc = "prompt" /\ att'.prompt.kind = "passphrase"
                /\ att' # att)
            => (/\ PublicKeyAsked
                /\ ~att.kw.SshBatchMode
                /\ att.probe.authSockSigners = <<>>
                /\ att'.prompt.file = Head(att.probe.identityFiles)
                /\ att'.probe.identityFiles = Tail(att.probe.identityFiles)
                /\ ParseRawPrivateKey(ExistingKey(att'.prompt.file))
                      = "PassphraseMissingError")
       /\ att'.pc # "config" => PassphrasePrompts(att') <= Taken(att')]_vars

\* the part of C36 about prompts alone: batch mode holds no prompting method
\* and issues no prompt; a passphrase prompt is for the entry just taken, whose
\* key parsed with passphrase-required, and is not issued twice for an entry
PromptsOnlyForPassphraseRequired ==
    [][/\ (att'.pc # "config" /\ att'.kw.SshBatchMode)
            => (/\ \A i \in 1..Len(att'.methods) :
                      att'.methods[i] \notin {"keyboard-interactive", "password"}
                /\ att'.pc # "prompt"
                /\ att'.prompt = NoPrompt
                /\ att'.answers = <<>>)
       /\ (att'.pc = "prompt" /\ att'.prompt.kind = "passphrase"
                /\ att' # att)
            => (/\ PublicKeyAsked
                /\ ~att.kw.SshBatchMode
                /\ att.probe.authSockSigners = <<>>
                /\ att'.prompt.file = Head(att.probe.identityFiles)
                /\ att'.probe.identityFiles = Tail(att.probe.identityFiles)
                /\ ParseRawPrivateKey(ExistingKey(att'.prompt.file))
                      = "PassphraseMissingError")
       /\ att'.pc # "config" => PassphrasePrompts(att') <= Taken(att')]_vars

\* batch mode left the password method out and the two encrypted identity
\* files were given up with placeholders, with no prompt
EncryptedKeysSkippedInBatch ==
    /\ att.kw.SshBatchMode
    /\ att.kw.SshPasswordAuthentication
    /\ att.methods = <<"publickey">>
    /\ att.answers = <<>>
    /\ \E i \in 1..Len(att.offered), j \in 1..Len(att.offered) :
          /\ att.offered[i] = [src |-> "file", id |-> "~/enc", dummy |-> TRUE]
          /\ att.offered[j] = [src |-> "file", id |-> "~/enc2", dummy |-> TRUE]

Dials(log) == SelectSeq(log, LAMBDA x : x.op \in {"tcp", "channel"})

\* the host reached by following the first ProxyJump entry of each hop
RECURSIVE InnermostFirstEntry(_, _, _)
InnermostFirstEntry(config, host, fuel) ==
    IF fuel = 0 \/ config[host].jump = <<>>
    THEN host
    ELSE InnermostFirstEntry(config, ParseOpts(config[host].jump[1]).opts.host,
                             fuel - 1)

\* C38: in a successful attempt started without a parent transport exactly
\* one hop is dialed directly over TCP: the first hop established, which is
\* the innermost first ProxyJump entry (the target itself when it has no
\* ProxyJump); every other hop is dialed by a channel-open through the
\* transport of the hop established immediately before it.
OneDirectDialPerAttempt ==
    cstate = "ok" =>
        LET dials == Dials(netlog) IN
        /\ Len(dials) = Len(clients)
        /\ Cardinality({i \in 1..Len(dials) : dials[i].op = "tcp"}) = 1
        /\ dials[1].op = "tcp"
        /\ dials[1].via = NoClient
        /\ dials[1].host = InnermostFirstEntry(cfg, "t", SshProxyJumpMaxDepth)
        /\ \A i \in 2..Len(dials) :
              /\ dials[i].op = "channel"
              /\ dials[i].via = i - 1
              /\ clients[i - 1].host = dials[i - 1].host

NestedChainEstablished ==
    /\ cstate = "ok"
    /\ cfg["j"].jump = <<"k">>
    /\ Len(clients) = 4
    /\ Dials(netlog)[1].host = "k"
    /\ Dials(netlog)[2].host = "j"
    /\ Dials(netlog)[4].host = "t"

\* C39: depth accounting. A call that succeeds returns the depth it was
\* called with (the caller's counter is what it passed, the caller of the
\* whole attempt gets 0 back); the k-th ProxyJump entry of a hop called at
\* depth d is connected at depth d + k; every call that got past the guard
\* has depth at most SshProxyJumpMaxDepth, and an entry whose depth d + k is
\* beyond it fails the attempt with the depth-exceeded error.
DepthAccounting ==
    [][/\ \A i \in 1..Len(stack') :
            /\ stack'[i].dbgJump <= SshProxyJumpMaxDepth
            /\ stack'[i].pc = "jump" =>
                  stack'[i].jumpNum = stack'[i].dbgJump + stack'[i].idx
                                        - (IF i = Len(stack') THEN 1 ELSE 0)
            /\ i > 1 => stack'[i].dbgJump
                            = stack'[i - 1].dbgJump + stack'[i - 1].idx
       /\ stack' = <<>> \/ stack'[1].dbgJump = 0
       /\ cstate' = "ok" => cret'.jumpNum = 0
       /\ (/\ cstate = "running"
           /\ Len(stack') = Len(stack) - 1
           /\ cstate' = "running")
          => stack'[Len(stack')].jumpNum = stack[Len(stack)].dbgJump
       /\ (/\ cstate = "running"
           /\ stack[Len(stack)].pc = "jump"
           /\ ~ParseOpts(stack[Len(stack)].jump[stack[Len(stack)].idx]).err
           /\ stack[Len(stack)].dbgJump + stack[Len(stack)].idx
                 > SshProxyJumpMaxDepth)
          => /\ cstate' = "err"
             /\ cret'.err.kind = "depth"
             /\ cret'.err.jumpNum
                   = stack[Len(stack)].dbgJump + stack[Len(stack)].idx
    ]_vars

\* a proxy that had a proxy of its own has returned, and the second entry of
\* the target is being connected two levels below the caller
SecondEntryAfterNestedProxy ==
    /\ cstate = "running"
    /\ cfg["j"].jump = <<"k">>
    /\ Len(stack) = 2
    /\ stack[1].idx = 2
    /\ stack[2].dbgJump = 2
    /\ Len(clients) = 2

\* the second entry of a list met at depth 9 was refused by the guard
ListLongerThanBudgetRefused ==
    /\ cstate = "err"
    /\ cret.err.kind = "depth"
    /\ cret.err.jumpNum = SshProxyJumpMaxDepth + 1
    /\ cfg["j"].jump = <<"k", "j">>
    /\ Len(clients) = 5

\* C35: the credential queues belong to one call that builds the
\* authentication methods: whatever another hop or another attempt has
\* consumed, the candidates a call has left are the ones it was built with
\* (the signers of the agent, then the readable identity files) less the
\* ones its own callback has handed out.
QueuesPrivateToCall ==
    \A c \in att.built :
        LET fresh == att.signers[c]
                       \o ReadableIdentityFiles(att.kw[c].SshIdentityFile)
            left == att.heap[att.ptr[c]].authSockSigners
                      \o att.heap[att.ptr[c]].identityFiles
        IN left = SubSeq(fresh, att.taken[c] + 1, Len(fresh))

\* two calls were built from the same keywords and signers; one has handed
\* out every candidate, the other still has all four
OneCallDrainedOtherFull ==
    /\ att.built = QueueCalls
    /\ att.kw["c1"] = att.kw["c2"]
    /\ att.signers["c1"] = <<"a1", "a2">>
    /\ att.signers["c2"] = <<"a1", "a2">>
    /\ att.taken["c1"] = 4
    /\ att.taken["c2"] = 0
    /\ att.heap[att.ptr["c1"]].identityFiles = <<>>
    /\ att.heap[att.ptr["c2"]].identityFiles = <<"~/plain", "~/enc">>
    /\ att.heap[att.ptr["c2"]].authSockSigners = <<"a1", "a2">>
====
